---- MODULE Spec2Model ----
(***************************************************************************)
(* claw-migrate: configuration conversion (internal/config/config.go),     *)
(* workspace migration (internal/migrate/migrate.go) and the command       *)
(* wizard (main.go), modelled as state machines.                           *)
(*                                                                         *)
(* Nine specifications share this module:                                    *)
(*   SpecMerge    MergeConfig / deepMerge on bounded JSON documents        *)
(*   SpecConvert  ConvertConfig on bounded source documents                 *)
(*   SpecSnake    camelToSnake on bounded keys                              *)
(*   SpecMigrate  MigrateWorkspace on a bounded source and target tree     *)
(*   SpecMigrateFile  migrateFile on one path of such trees                *)
(*   SpecCli      main(): command dispatch, the six phases, the prompts    *)
(*   SpecConfig   MigrateConfig on the two configuration files              *)
(*   SpecRestore  the restore command on ~/.openclaw and the archives       *)
(*   SpecHeap     MergeConfig and ConvertConfig on Go's heap, where a map   *)
(*                is a reference and a store changes every alias of it     *)
(* Every variable a specification does not use keeps its idle value.       *)
(***************************************************************************)
EXTENDS Integers, Sequences, FiniteSets, TLC

VARIABLES
    mergePc,    \* "start" before MergeConfig is called, "merged" after
    existing,   \* MergeConfig's first argument (NilDoc when absent)
    incoming,   \* MergeConfig's second argument
    merged      \* MergeConfig's return value

mergeVars == <<mergePc, existing, incoming, merged>>

VARIABLES
    snakePc,    \* "start", "once" after one camelToSnake, "twice" after two
    key,        \* the key given to camelToSnake (a Go string: its bytes)
    once,       \* camelToSnake(key)
    twice       \* camelToSnake(camelToSnake(key))

snakeVars == <<snakePc, key, once, twice>>

VARIABLES
    convPc,          \* "start", "once" after one ConvertConfig, "twice" after two
    openclawConfig,  \* ConvertConfig's argument
    picoConfig,      \* what the first ConvertConfig(openclawConfig) returned
    picoConfig2,     \* what a second ConvertConfig(openclawConfig) returned
    unsupported      \* phase4Migrate's list for "Unsupported channels: ..."

convVars == <<convPc, openclawConfig, picoConfig, picoConfig2, unsupported>>

VARIABLES
    runs,       \* how many times MigrateWorkspace has run (-1: not in use)
    srcFS,      \* the source workspace tree: path -> node
    dstFS,      \* the target workspace tree: path -> node
    force,      \* MigrateWorkspace's force argument
    before,     \* dstFS as it was when the last run started
    result,     \* the Result the last run returned
    log         \* the files the last run wrote, in order

migVars == <<runs, srcFS, dstFS, force, before, result, log>>

VARIABLES
    cliPc,          \* where main() is: the function or phase about to run
    subcommand,     \* the command word on the command line ("" for the menu)
    dryRun,         \* --dry-run was given
    skipInstall,    \* --skip-install was given
    skipUninstall,  \* --skip-uninstall was given
    command,        \* the run function main dispatched to
    oc,             \* detect.DetectOpenClaw()
    pc,             \* detect.DetectPicoClaw()
    trace           \* phases printed, questions answered, calls made

cliVars == <<cliPc, subcommand, dryRun, skipInstall, skipUninstall, command, oc, pc, trace>>

VARIABLES
    heapPc,     \* "start" before the call on the heap, "done" after
    callee,     \* the function called: "MergeConfig" or "ConvertConfig"
    heap0,      \* the heap when the call was made
    heap,       \* the heap now
    hargs,      \* the call's arguments: references into the heap (or nil)
    hord,       \* the orders ConvertConfig's loops took
    hret        \* the reference the call returned

heapVars == <<heapPc, callee, heap0, heap, hargs, hord, hret>>

VARIABLES
    cfgRuns,     \* MigrateConfig calls made so far (-1: not in use)
    ocFile,      \* the source configuration file (openclaw.json)
    picoFile,    \* the target configuration file (config.json)
    bakFile,     \* the target's backup (config.json.bak)
    picoBefore,  \* picoFile when the last call was made
    bakBefore,   \* bakFile when the last call was made
    cfgResult    \* the FileResult the last call returned

cfgVars == <<cfgRuns, ocFile, picoFile, bakFile, picoBefore, bakBefore, cfgResult>>

VARIABLES
    restorePc,    \* where runRestore is: "idle", "runRestore", "verify", "restore", "done"
    openclawDir,  \* ~/.openclaw
    dirBefore,    \* ~/.openclaw when the command started
    backups,      \* backup.ListBackups(): the archives in the home directory
    selected,     \* the index of the archive the user chose (0: none yet)
    confirmed,    \* ui.ConfirmDangerous returned true
    verifiedOk,     \* backup.VerifyBackup returned nil
    restoreErr,   \* backup.RestoreBackup returned an error
    exitCode      \* os.Exit's argument (0 when runRestore returns)

restoreVars ==
    <<restorePc, openclawDir, dirBefore, backups, selected, confirmed, verifiedOk,
      restoreErr, exitCode>>

vars == <<mergeVars, snakeVars, convVars, migVars, cliVars, heapVars, cfgVars, restoreVars>>

(***************************************************************************)
(* JSON values (Go's interface{} after json.Unmarshal): a tag and a        *)
(* payload.  A mapping's payload is a function from its keys.              *)
(***************************************************************************)
Num(n) == [t |-> "num", v |-> n]
Str(s) == [t |-> "str", v |-> s]
Bool(b) == [t |-> "bool", v |-> b]
ListV(s) == [t |-> "list", v |-> s]
MapV(f) == [t |-> "map", v |-> f]
NullV == [t |-> "null", v |-> <<>>]
NilDoc == [t |-> "nil", v |-> <<>>]
EmptyMap == MapV(<<>>)

IsMap(x) == x.t = "map"
Has(m, k) == k \in DOMAIN m.v

\* Every mapping from a subset of keys into vals.
MapsOver(keys, vals) ==
    UNION {{MapV(f) : f \in [ks -> vals]} : ks \in SUBSET keys}

\* m with key k set to x (Go: m[k] = x).
Put(m, k, x) ==
    MapV([j \in DOMAIN m.v \cup {k} |-> IF j = k THEN x ELSE m.v[j]])

(***************************************************************************)
(* Bounds of the merge documents.                                          *)
(***************************************************************************)
MaxNum == 3

Scalars == {Num(n) : n \in 1..MaxNum} \cup {ListV(<<Num(1)>>)}
DeepMaps == MapsOver({"p"}, {Num(n) : n \in 1..MaxNum})
MidMaps ==
    {MapV(f @@ g) :
        f \in {m.v : m \in MapsOver({"x"}, Scalars \cup DeepMaps)},
        g \in {m.v : m \in MapsOver({"y"}, Scalars)}}
MergeDocs ==
    {MapV(f @@ g) :
        f \in {m.v : m \in MapsOver({"a"}, Scalars \cup MidMaps)},
        g \in {m.v : m \in MapsOver({"b"}, Scalars)}}

(***************************************************************************)
(* config.go: deepMerge and MergeConfig.                                   *)
(***************************************************************************)
RECURSIVE deepMerge(_, _)
deepMerge(base, overlay) ==
    MapV([k \in DOMAIN base.v \cup DOMAIN overlay.v |->
        IF ~Has(overlay, k) THEN base.v[k]
        ELSE IF Has(base, k) /\ IsMap(base.v[k]) /\ IsMap(overlay.v[k])
             THEN deepMerge(base.v[k], overlay.v[k])
             ELSE overlay.v[k]])

\* MergeConfig returning an empty document for a missing existing one.
MergeConfigNilEmpty(ex, inc) ==
    IF ex.t = "nil" THEN EmptyMap ELSE deepMerge(ex, inc)

\* MergeConfig keeping existing's value wherever existing has the key.
MergeConfigExistingWins(ex, inc) ==
    IF ex.t = "nil" THEN inc
    ELSE MapV([k \in DOMAIN ex.v \cup DOMAIN inc.v |->
             IF Has(ex, k) THEN ex.v[k] ELSE inc.v[k]])

MergeConfig(ex, inc) ==
    IF ex.t = "nil" THEN inc
    ELSE MapV([k \in DOMAIN ex.v \cup DOMAIN inc.v |->
        IF ~Has(inc, k) THEN ex.v[k]
        ELSE IF Has(ex, k) /\ IsMap(ex.v[k]) /\ IsMap(inc.v[k])
             THEN deepMerge(ex.v[k], inc.v[k])
             ELSE inc.v[k]])

(***************************************************************************)
(* Go strings are byte sequences.  `for i, c := range s` decodes UTF-8:    *)
(* c is the rune at byte offset i, and a byte that starts no valid         *)
(* encoding yields the rune U+FFFD with width 1.                           *)
(***************************************************************************)
RuneError == [r |-> 65533, size |-> 1]

IsCont(b) == b >= 128 /\ b <= 191

\* utf8.DecodeRuneInString(s[i:]) for 1-indexed i <= Len(s).
DecodeRune(s, i) ==
    LET n == Len(s) - i + 1
        b0 == s[i]
        lo == IF b0 = 224 THEN 160 ELSE IF b0 = 240 THEN 144 ELSE 128
        hi == IF b0 = 237 THEN 159 ELSE IF b0 = 244 THEN 143 ELSE 191
    IN  IF b0 < 128 THEN [r |-> b0, size |-> 1]
        ELSE IF b0 >= 194 /\ b0 <= 223
        THEN IF n >= 2 /\ IsCont(s[i + 1])
             THEN [r |-> (b0 % 32) * 64 + (s[i + 1] % 64), size |-> 2]
             ELSE RuneError
        ELSE IF b0 >= 224 /\ b0 <= 239
        THEN IF n >= 3 /\ s[i + 1] >= lo /\ s[i + 1] <= hi /\ IsCont(s[i + 2])
             THEN [r |-> (b0 % 16) * 4096 + (s[i + 1] % 64) * 64 + (s[i + 2] % 64),
                   size |-> 3]
             ELSE RuneError
        ELSE IF b0 >= 240 /\ b0 <= 244
        THEN IF /\ n >= 4 /\ s[i + 1] >= lo /\ s[i + 1] <= hi
                /\ IsCont(s[i + 2]) /\ IsCont(s[i + 3])
             THEN [r |-> (b0 % 8) * 262144 + (s[i + 1] % 64) * 4096
                         + (s[i + 2] % 64) * 64 + (s[i + 3] % 64),
                   size |-> 4]
             ELSE RuneError
        ELSE RuneError

\* byte(c): a rune keeps its low eight bits.
ToByte(c) == c % 256

\* The loop body of camelToSnake for the rune c at byte offset i-1.
SnakeStep(c, i) ==
    IF c >= 65 /\ c <= 90
    THEN (IF i > 1 THEN <<95>> ELSE <<>>) \o <<ToByte(c + 32)>>
    ELSE <<ToByte(c)>>

RECURSIVE SnakeFrom(_, _)
SnakeFrom(s, i) ==
    IF i > Len(s) THEN <<>>
    ELSE LET d == DecodeRune(s, i)
         IN  SnakeStep(d.r, i) \o SnakeFrom(s, i + d.size)

camelToSnake(s) == SnakeFrom(s, 1)

(***************************************************************************)
(* config.go: ConvertConfig.  Go ranges over a map in an order that        *)
(* differs from run to run: every loop over a map takes the order of its   *)
(* keys as a parameter, and the caller draws it.                           *)
(***************************************************************************)
RangeOrders(S) ==
    {s \in [1..Cardinality(S) -> S] : \A i, j \in DOMAIN s : i # j => s[i] # s[j]}

\* m[k].(string), the empty string when k is missing or no string.
GetStr(m, k) == IF Has(m, k) /\ m.v[k].t = "str" THEN m.v[k].v ELSE ""

\* src[k].(map[string]interface{}) succeeds.
HasMap(m, k) == Has(m, k) /\ IsMap(m.v[k])

vendorMap ==
    [openrouter |-> "openrouter", anthropic |-> "anthropic", openai |-> "openai",
     gemini |-> "gemini", zhipu |-> "zhipu", groq |-> "groq",
     deepseek |-> "deepseek", ollama |-> "ollama"]

defaultModels ==
    [openrouter |-> "openrouter/anthropic/claude-sonnet-4.6",
     anthropic |-> "anthropic/claude-sonnet-4.6",
     openai |-> "openai/gpt-5.2",
     gemini |-> "gemini/gemini-2.0-flash",
     zhipu |-> "zhipu/glm-4.7",
     groq |-> "groq/llama-3.3-70b-versatile",
     deepseek |-> "deepseek/deepseek-chat",
     ollama |-> "ollama/llama3"]

\* The api key read under its snake_case spelling only.
ProviderKeySnakeOnly(provConf) == GetStr(provConf, "api_key")

\* The api_key / api_base pair of one provider (config.go:129-136).
ProviderKey(provConf) ==
    IF GetStr(provConf, "api_key") = "" THEN GetStr(provConf, "apiKey")
    ELSE GetStr(provConf, "api_key")

ProviderBase(provConf) ==
    IF GetStr(provConf, "api_base") = "" THEN GetStr(provConf, "apiBase")
    ELSE GetStr(provConf, "api_base")

\* api_key and api_base set whether empty or not.
WithCredentialsAlways(base, apiKey, apiBase) ==
    Put(Put(base, "api_key", Str(apiKey)), "api_base", Str(apiBase))

\* A map holding api_key and api_base when non-empty, on top of base.
WithCredentials(base, apiKey, apiBase) ==
    LET a == IF apiKey # "" THEN Put(base, "api_key", Str(apiKey)) ELSE base
    IN  IF apiBase # "" THEN Put(a, "api_base", Str(apiBase)) ELSE a

\* One pass of the loop at config.go:123-162 over the names left in order;
\* acc holds modelList and picoProviders.
RECURSIVE ProvidersLoop(_, _, _)
ProvidersLoop(providers, order, acc) ==
    IF order = <<>> THEN acc
    ELSE LET name == Head(order)
             provConf == providers.v[name]
             apiKey == ProviderKey(provConf)
             apiBase == ProviderBase(provConf)
             picoProvider == WithCredentials(EmptyMap, apiKey, apiBase)
             modelEntry ==
                 WithCredentials(
                     MapV([model_name |-> Str(name),
                           model |-> Str(defaultModels[vendorMap[name]])]),
                     apiKey, apiBase)
         IN  IF ~IsMap(provConf) THEN ProvidersLoop(providers, Tail(order), acc)
             ELSE ProvidersLoop(providers, Tail(order),
                    [modelList |->
                        IF name \in DOMAIN vendorMap
                        THEN Append(acc.modelList, modelEntry)
                        ELSE acc.modelList,
                     picoProviders |-> Put(acc.picoProviders, name, picoProvider)])

\* convertProviders writing empty values where the code writes nothing.
convertProvidersEmpty(src, dst, order) ==
    LET acc == IF HasMap(src, "providers")
               THEN ProvidersLoop(src.v["providers"], order,
                        [modelList |-> <<>>, picoProviders |-> EmptyMap])
               ELSE [modelList |-> <<>>, picoProviders |-> EmptyMap]
    IN  Put(Put(dst, "model_list", ListV(acc.modelList)), "providers", acc.picoProviders)

convertProviders(src, dst, order) ==
    IF ~HasMap(src, "providers") THEN dst
    ELSE LET acc == ProvidersLoop(src.v["providers"], order,
                        [modelList |-> <<>>, picoProviders |-> EmptyMap])
             d1 == IF Len(acc.modelList) > 0
                   THEN Put(dst, "model_list", ListV(acc.modelList)) ELSE dst
         IN  IF DOMAIN acc.picoProviders.v # {}
             THEN Put(d1, "providers", acc.picoProviders) ELSE d1

\* The source agent section: agent, else agents.defaults (config.go:173-184).
HasAgentSection(src) ==
    \/ HasMap(src, "agent")
    \/ HasMap(src, "agents") /\ HasMap(src.v["agents"], "defaults")

\* The source agent section with agents.defaults tried first.
AgentSectionLegacyFirst(src) ==
    IF HasMap(src, "agents") /\ HasMap(src.v["agents"], "defaults")
    THEN src.v["agents"].v["defaults"]
    ELSE src.v["agent"]

AgentSection(src) ==
    IF HasMap(src, "agent") THEN src.v["agent"]
    ELSE src.v["agents"].v["defaults"]

\* The last non-empty string among the model object's keys.
RECURSIVE LastModelKey(_, _)
LastModelKey(m, keys) ==
    IF keys = <<>> THEN ""
    ELSE IF LastModelKey(m, Tail(keys)) # "" THEN LastModelKey(m, Tail(keys))
    ELSE GetStr(m, Head(keys))

\* config.go:204-209: the first non-empty string among the model object's keys.
RECURSIVE FirstModelKey(_, _)
FirstModelKey(m, keys) ==
    IF keys = <<>> THEN ""
    ELSE IF GetStr(m, Head(keys)) # "" THEN GetStr(m, Head(keys))
    ELSE FirstModelKey(m, Tail(keys))

\* config.go:194-211: defaults after the model field was handled.
WithModel(agent, defaults) ==
    IF ~Has(agent, "model") THEN defaults
    ELSE LET model == agent.v["model"]
             fromObject ==
                 FirstModelKey(model, <<"primary", "name", "model", "default">>)
         IN  IF model.t = "str"
             THEN (IF model.v # "" THEN Put(defaults, "model", model) ELSE defaults)
             ELSE IF model.t = "map"
             THEN (IF fromObject # ""
                   THEN Put(defaults, "model", Str(fromObject)) ELSE defaults)
             ELSE defaults

\* fieldMap without the camelCase spellings.
fieldMapSnakeOnly ==
    [max_tokens |-> "max_tokens", temperature |-> "temperature",
     max_tool_iterations |-> "max_tool_iterations"]

fieldMap ==
    [max_tokens |-> "max_tokens", maxTokens |-> "max_tokens",
     temperature |-> "temperature",
     max_tool_iterations |-> "max_tool_iterations",
     maxToolIterations |-> "max_tool_iterations"]

\* config.go:222-238: the loop over fieldMap, in the order given.
RECURSIVE FieldsLoop(_, _, _)
FieldsLoop(agent, order, defaults) ==
    IF order = <<>> THEN defaults
    ELSE LET srcKey == Head(order)
             dstKey == fieldMap[srcKey]
             val == agent.v[srcKey]
             copied ==
                 IF val.t = "num" THEN val.v > 0
                 ELSE IF val.t = "str" THEN val.v # ""
                 ELSE TRUE
         IN  FieldsLoop(agent, Tail(order),
                IF Has(agent, srcKey) /\ copied
                THEN Put(defaults, dstKey, val) ELSE defaults)

convertAgentDefaults(src, dst, order) ==
    IF ~HasAgentSection(src) THEN dst
    ELSE LET agent == AgentSection(src)
             defaults0 == MapV([workspace |-> Str("~/.picoclaw/workspace")])
             defaults == FieldsLoop(agent, order, WithModel(agent, defaults0))
         IN  Put(dst, "agents", MapV([defaults |-> defaults]))

supported ==
    {"telegram", "discord", "qq", "dingtalk", "line", "slack", "feishu", "onebot"}

\* config.go:269-271: the loop over one channel's fields, in the order given.
RECURSIVE ChannelFieldsLoop(_, _, _)
ChannelFieldsLoop(chConf, order, picoChannel) ==
    IF order = <<>> THEN picoChannel
    ELSE ChannelFieldsLoop(chConf, Tail(order),
            Put(picoChannel, camelToSnake(Head(order)), chConf.v[Head(order)]))

\* Every channel that is a mapping, supported or not.
CarriedChannelsAll(channels) ==
    {name \in DOMAIN channels.v : IsMap(channels.v[name])}

\* The channels the loop at config.go:258-273 copies.
CarriedChannels(channels) ==
    {name \in DOMAIN channels.v : name \in supported /\ IsMap(channels.v[name])}

\* fieldOrders[name] is the order in which channel name's fields are ranged.
convertChannels(src, dst, fieldOrders) ==
    IF ~HasMap(src, "channels") THEN dst
    ELSE LET channels == src.v["channels"]
             picoChannels ==
                 MapV([name \in CarriedChannels(channels) |->
                     ChannelFieldsLoop(channels.v[name], fieldOrders[name], EmptyMap)])
         IN  IF DOMAIN picoChannels.v # {}
             THEN Put(dst, "channels", picoChannels) ELSE dst

convertTools(src, dst) ==
    IF ~HasMap(src, "tools") THEN dst
    ELSE LET tools == src.v["tools"]
             duck == MapV([enabled |-> Bool(TRUE), max_results |-> Num(5)])
             picoWeb ==
                 IF HasMap(tools.v["web"], "brave")
                 THEN MapV([brave |-> tools.v["web"].v["brave"], duckduckgo |-> duck])
                 ELSE MapV([duckduckgo |-> duck])
             t1 == IF HasMap(tools, "web") THEN Put(EmptyMap, "web", picoWeb)
                   ELSE EmptyMap
             picoTools == IF HasMap(tools, "cron")
                          THEN Put(t1, "cron", tools.v["cron"]) ELSE t1
         IN  IF DOMAIN picoTools.v # {} THEN Put(dst, "tools", picoTools) ELSE dst

\* convertHeartbeat copying the source heartbeat object as it is.
convertHeartbeatCopy(src, dst) ==
    IF ~HasMap(src, "heartbeat")
    THEN Put(dst, "heartbeat", MapV([enabled |-> Bool(TRUE), interval |-> Num(30)]))
    ELSE Put(dst, "heartbeat", src.v["heartbeat"])

convertHeartbeat(src, dst) ==
    LET default == MapV([enabled |-> Bool(TRUE), interval |-> Num(30)])
        heartbeat == src.v["heartbeat"]
        h1 == IF Has(heartbeat, "enabled") /\ heartbeat.v["enabled"].t = "bool"
              THEN Put(default, "enabled", heartbeat.v["enabled"]) ELSE default
        h2 == IF Has(heartbeat, "interval") /\ heartbeat.v["interval"].t = "num"
              THEN Put(h1, "interval", heartbeat.v["interval"]) ELSE h1
    IN  IF ~HasMap(src, "heartbeat") THEN Put(dst, "heartbeat", default)
        ELSE Put(dst, "heartbeat", h2)

IsList(m, k) == Has(m, k) /\ m.v[k].t = "list"

convertMCPServers(src, dst) ==
    LET mcpServers ==
            IF IsList(src, "mcp_servers") THEN src.v["mcp_servers"].v
            ELSE IF IsList(src, "mcpServers") THEN src.v["mcpServers"].v
            ELSE <<>>
    IN  IF Len(mcpServers) > 0 THEN Put(dst, "mcp_servers", ListV(mcpServers))
        ELSE dst

\* The orders ConvertConfig's loops over maps can take on document src.
ConvertOrders(src) ==
    [providers :
        IF HasMap(src, "providers")
        THEN RangeOrders(DOMAIN src.v["providers"].v) ELSE {<<>>},
     fields :
        IF HasAgentSection(src) THEN RangeOrders(DOMAIN fieldMap) ELSE {<<>>},
     channelFields :
        IF HasMap(src, "channels")
        THEN LET channels == src.v["channels"]
             IN  {f \in [CarriedChannels(channels) ->
                            UNION {RangeOrders(DOMAIN channels.v[n].v) :
                                       n \in CarriedChannels(channels)}] :
                     \A n \in DOMAIN f :
                         f[n] \in RangeOrders(DOMAIN channels.v[n].v)}
        ELSE {<<>>}]

ConvertConfig(src, ord) ==
    convertMCPServers(src,
        convertHeartbeat(src,
            convertTools(src,
                convertChannels(src,
                    convertAgentDefaults(src,
                        convertProviders(src, EmptyMap, ord.providers),
                        ord.fields),
                    ord.channelFields))))

(***************************************************************************)
(* Keys: the UTF-8 encodings of a, K, _, e-acute (U+00E9), L-stroke        *)
(* (U+0141), joined up to MaxKeyLen characters, and the keys the           *)
(* documentation names.                                                    *)
(***************************************************************************)
MaxKeyLen == 3

Chars == {<<97>>, <<75>>, <<95>>, <<195, 169>>, <<197, 129>>}

RECURSIVE KeysOfLen(_)
KeysOfLen(n) ==
    IF n = 0 THEN {<<>>}
    ELSE {k \o c : k \in KeysOfLen(n - 1), c \in Chars}

Key_apiKey == <<97, 112, 105, 75, 101, 121>>
Key_api_key == <<97, 112, 105, 95, 107, 101, 121>>
Key_botToken == <<98, 111, 116, 84, 111, 107, 101, 110>>
Key_bot_token == <<98, 111, 116, 95, 116, 111, 107, 101, 110>>
Key_enabled == <<101, 110, 97, 98, 108, 101, 100>>

SnakeKeys ==
    UNION {KeysOfLen(n) : n \in 0..MaxKeyLen}
        \cup {Key_apiKey, Key_api_key, Key_botToken, Key_bot_token, Key_enabled}

IsUpper(b) == b >= 65 /\ b <= 90

(***************************************************************************)
(* The filesystem.  A name is a sequence of parts, so that dst + ".bak"    *)
(* is Append(name, ".bak"); a path is a sequence of names below the        *)
(* workspace root <<>>.  A tree maps each existing path to its node.       *)
(***************************************************************************)
None == -1
Empty == 0

\* list: os.ReadDir of the node succeeds (a directory the user may read).
FileNode(c, ro) == [kind |-> "file", content |-> c, ro |-> ro, list |-> FALSE]
DirNode == [kind |-> "dir", content |-> None, ro |-> FALSE, list |-> TRUE]
\* A directory whose entries cannot be read (mode without r).
LockedDir == [kind |-> "dir", content |-> None, ro |-> FALSE, list |-> FALSE]

Exists(fs, p) == p \in DOMAIN fs
IsDirAt(fs, p) == Exists(fs, p) /\ fs[p].kind = "dir"
IsFileAt(fs, p) == Exists(fs, p) /\ fs[p].kind = "file"
\* os.ReadDir(p) returns no error.
CanList(fs, p) == Exists(fs, p) /\ fs[p].list
ContentAt(fs, p) == IF IsFileAt(fs, p) THEN fs[p].content ELSE None

Parent(p) == SubSeq(p, 1, Len(p) - 1)
Base(p) == p[Len(p)]
Join(dir, name) == Append(dir, name)
\* path + ".bak"
Bak(p) == Join(Parent(p), Append(Base(p), ".bak"))

WriteNode(fs, p, node) ==
    [q \in DOMAIN fs \cup {p} |-> IF q = p THEN node ELSE fs[q]]

\* os.MkdirAll(p): creates p and its missing ancestors; stops, changing
\* nothing further, where a file is in the way.  The error is dropped.
RECURSIVE MkdirAll(_, _)
MkdirAll(fs, p) ==
    IF Exists(fs, p) THEN fs
    ELSE IF p = <<>> THEN WriteNode(fs, p, DirNode)
    ELSE LET up == MkdirAll(fs, Parent(p))
         IN  IF IsDirAt(up, Parent(p)) THEN WriteNode(up, p, DirNode) ELSE up

\* Names in the order os.ReadDir returns them (sorted by file name).
NameOrder ==
    << <<".DS_Store">>, <<".git">>, <<"c">>, <<"d">>, <<"f">>, <<"f", ".bak">> >>

Rank(name) == CHOOSE i \in DOMAIN NameOrder : NameOrder[i] = name

RECURSIVE SortedNames(_)
SortedNames(S) ==
    IF S = {} THEN <<>>
    ELSE LET m == CHOOSE x \in S : \A y \in S : Rank(x) <= Rank(y)
         IN  <<m>> \o SortedNames(S \ {m})

\* os.ReadDir(dir): the names of dir's entries.
ReadDir(fs, dir) ==
    SortedNames({Base(p) : p \in {q \in DOMAIN fs : q # <<>> /\ Parent(q) = dir}})

SkipEntries ==
    { <<".git">>, <<".openclaw">>, <<".DS_Store">>, <<".gitignore">>, <<"sessions">> }

(***************************************************************************)
(* migrate.go: copyFileSafe, migrateFile, migrateDirectory and             *)
(* MigrateWorkspace.  st carries the target tree (fs), the writes made     *)
(* (log) and the records so far (files).                                   *)
(***************************************************************************)
\* os.Create(dst) succeeds: the parent is a directory, and dst is neither a
\* directory nor a read-only file.
CanCreate(fs, dst) ==
    /\ IsDirAt(fs, Parent(dst))
    /\ ~IsDirAt(fs, dst)
    /\ ~(IsFileAt(fs, dst) /\ fs[dst].ro)

\* copyFileSafe(src, dst), src read from tree rfs (inTarget: rfs is the
\* target tree).  os.Open fails when src is missing; os.Create truncates
\* dst; io.Copy fails on a directory, leaving dst empty.
copyFileSafe(rfs, src, inTarget, st, dst) ==
    LET made == MkdirAll(st.fs, Parent(dst))
        content == IF IsFileAt(rfs, src) THEN rfs[src].content ELSE Empty
        ro == IF IsFileAt(made, dst) THEN made[dst].ro ELSE FALSE
        entry == [from |-> src, inTarget |-> inTarget, to |-> dst,
                  prev |-> ContentAt(made, dst), content |-> content]
    IN  IF ~Exists(rfs, src) \/ ~CanCreate(made, dst)
        THEN [st EXCEPT !.fs = made, !.err = TRUE]
        ELSE [st EXCEPT !.fs = WriteNode(made, dst, FileNode(content, ro)),
                        !.log = Append(st.log, entry),
                        !.err = ~IsFileAt(rfs, src)]

FileResult(src, dst, name) ==
    [Source |-> src, Dest |-> dst, Name |-> name,
     Migrated |-> FALSE, Skipped |-> FALSE, BackedUp |-> FALSE, Error |-> FALSE]

\* The backup taken whatever the force flag says.
NeedsBackupAlways(fs, dst, frc) == Exists(fs, dst)

\* migrate.go:169: os.Stat(dst) succeeds and force is off.
NeedsBackup(fs, dst, frc) == Exists(fs, dst) /\ ~frc

AddFile(st, fr) == [st EXCEPT !.files = Append(st.files, fr)]

\* The error of os.Stat(p): ENOTDIR when a name on the way to p is a file,
\* ENOENT when p or a directory on the way is missing, none when p exists.
RECURSIVE StatErr(_, _)
StatErr(fs, p) ==
    IF Exists(fs, p) THEN "none"
    ELSE IF p = <<>> THEN "ENOENT"
    ELSE IF IsFileAt(fs, Parent(p)) THEN "ENOTDIR"
    ELSE IF Exists(fs, Parent(p)) THEN "ENOENT"
    ELSE StatErr(fs, Parent(p))

\* migrate.go:157-158: os.IsNotExist(err) of os.Stat(src), true of ENOENT only.
IsNotExist(fs, p) == StatErr(fs, p) = "ENOENT"

migrateFile(sfs, st, src, dst, name, frc) ==
    LET fr == FileResult(src, dst, name)
        backedUp == NeedsBackup(st.fs, dst, frc)
        st1 == IF backedUp THEN copyFileSafe(st.fs, dst, TRUE, st, Bak(dst)) ELSE st
        st2 == copyFileSafe(sfs, src, FALSE, st1, dst)
        \* reached only when os.Stat(src) succeeded: srcInfo is not nil
        mode == [st2 EXCEPT !.fs = WriteNode(st2.fs, dst,
                                      [st2.fs[dst] EXCEPT !.ro = sfs[src].ro])]
    IN  IF IsNotExist(sfs, src)
        THEN AddFile(st, [fr EXCEPT !.Skipped = TRUE])
        ELSE IF st2.err
        THEN AddFile(st2, [fr EXCEPT !.BackedUp = backedUp, !.Error = TRUE])
        ELSE AddFile(mode, [fr EXCEPT !.BackedUp = backedUp, !.Migrated = TRUE])

\* migrate.go:197-211: the loop of migrateDirectory over the entries left.
RECURSIVE DirectoryLoop(_, _, _, _, _, _)
DirectoryLoop(sfs, st, names, srcDir, dstDir, frc) ==
    IF names = <<>> THEN st
    ELSE LET srcPath == Join(srcDir, Head(names))
             dstPath == Join(dstDir, Head(names))
             name == <<Base(srcDir), Head(names)>>
             sub == [st EXCEPT !.fs = MkdirAll(st.fs, dstPath)]
             next ==
                 IF IsDirAt(sfs, srcPath)
                 THEN DirectoryLoop(sfs, sub, ReadDir(sfs, srcPath),
                                    srcPath, dstPath, frc)
                 ELSE migrateFile(sfs, st, srcPath, dstPath, name, frc)
         IN  DirectoryLoop(sfs, next, Tail(names), srcDir, dstDir, frc)

migrateDirectory(sfs, st, srcDir, dstDir, frc) ==
    IF ~CanList(sfs, srcDir) THEN st
    ELSE DirectoryLoop(sfs, st, ReadDir(sfs, srcDir), srcDir, dstDir, frc)

\* The loop of MigrateWorkspace, were it to return at the first failed copy.
RECURSIVE WorkspaceLoopAbort(_, _, _, _)
WorkspaceLoopAbort(sfs, st, names, frc) ==
    IF names = <<>> \/ st.err THEN st
    ELSE LET name == Head(names)
             sub == [st EXCEPT !.fs = MkdirAll(st.fs, <<name>>)]
             next ==
                 IF name \in SkipEntries THEN st
                 ELSE IF IsDirAt(sfs, <<name>>)
                 THEN migrateDirectory(sfs, sub, <<name>>, <<name>>, frc)
                 ELSE migrateFile(sfs, st, <<name>>, <<name>>, <<name>>, frc)
         IN  WorkspaceLoopAbort(sfs, next, Tail(names), frc)

\* migrate.go:59-98: the loop of MigrateWorkspace over the entries left.
RECURSIVE WorkspaceLoop(_, _, _, _)
WorkspaceLoop(sfs, st, names, frc) ==
    IF names = <<>> THEN st
    ELSE LET name == Head(names)
             srcPath == Join(<<>>, name)
             dstPath == Join(<<>>, name)
             sub == [st EXCEPT !.fs = MkdirAll(st.fs, dstPath)]
             next ==
                 IF name \in SkipEntries THEN st
                 ELSE IF IsDirAt(sfs, srcPath)
                 THEN migrateDirectory(sfs, sub, srcPath, dstPath, frc)
                 ELSE migrateFile(sfs, st, srcPath, dstPath, <<name>>, frc)
         IN  WorkspaceLoop(sfs, next, Tail(names), frc)

\* The records of files with property P.
Count(files, P(_)) == Cardinality({i \in DOMAIN files : P(files[i])})
WasMigrated(fr) == fr.Migrated
WasSkipped(fr) == ~fr.Migrated /\ fr.Skipped
WasError(fr) == ~fr.Migrated /\ ~fr.Skipped /\ fr.Error

\* The tallies with every failed copy counted as skipped.
TallyErrorsAsSkipped(st) ==
    [Files |-> st.files, TotalFiles |-> Len(st.files),
     Migrated |-> Count(st.files, WasMigrated),
     Skipped |-> Len(st.files) - Count(st.files, WasMigrated),
     Errors |-> 0]

\* The Result of a run that ended in st (migrate.go:74-96: the tallies).
Tally(st) ==
    [Files |-> st.files, TotalFiles |-> Len(st.files),
     Migrated |-> Count(st.files, WasMigrated),
     Skipped |-> Count(st.files, WasSkipped),
     Errors |-> Count(st.files, WasError)]

MigrateWorkspace(sfs, fs, frc) ==
    LET st0 == [fs |-> MkdirAll(fs, <<>>), log |-> <<>>, files |-> <<>>,
                err |-> FALSE]
    IN  IF ~CanList(sfs, <<>>) THEN st0
        ELSE WorkspaceLoop(sfs, st0, ReadDir(sfs, <<>>), frc)

(***************************************************************************)
(* Source and target trees.                                                *)
(***************************************************************************)
\* The tree holding the files of f (path -> node) and their directories.
RECURSIVE Ancestors(_)
Ancestors(p) == IF p = <<>> THEN {<<>>} ELSE {Parent(p)} \cup Ancestors(Parent(p))

TreeOf(f) ==
    [p \in DOMAIN f \cup UNION {Ancestors(q) : q \in DOMAIN f} |->
        IF p \in DOMAIN f THEN f[p] ELSE DirNode]

NoFiles == [p \in {} |-> DirNode]
EmptyTree == TreeOf(<<>> :> DirNode)

\* Either nothing or the file p with one of the contents cs.
Maybe(p, cs, ros) ==
    {NoFiles} \cup {p :> FileNode(c, ro) : c \in cs, ro \in ros}

ListableTrees ==
    {NoFiles}
    \cup {TreeOf((<<>> :> DirNode) @@ a @@ b @@ c @@ d @@ e @@ g) :
            a \in Maybe(<< <<"f">> >>, {1}, BOOLEAN),
            b \in Maybe(<< <<"f", ".bak">> >>, {2}, {FALSE}),
            c \in Maybe(<< <<"d">>, <<"f">> >>, {3}, {FALSE}),
            d \in Maybe(<< <<"d">>, <<".git">>, <<"c">> >>, {4}, {FALSE}),
            e \in Maybe(<< <<".git">>, <<"c">> >>, {5}, {FALSE}),
            g \in Maybe(<< <<".DS_Store">> >>, {6}, {FALSE})}

\* Tree t with the directory at p made unreadable.
Lock(t, p) == [q \in DOMAIN t |-> IF q = p THEN LockedDir ELSE t[q]]

\* The source workspaces: every directory readable, or the root or d not.
SourceTrees ==
    ListableTrees
    \cup UNION {{Lock(t, p) : p \in {<<>>, << <<"d">> >>} \cap DOMAIN t} :
                    t \in ListableTrees \ {NoFiles}}

MaxOld == 1
OldContents == {10 * n : n \in 1..MaxOld}

TargetTrees ==
    {NoFiles}
    \cup {TreeOf((<<>> :> DirNode) @@ a @@ b @@ c) :
            a \in Maybe(<< <<"f">> >>, {1}, {FALSE})
                    \cup Maybe(<< <<"f">> >>, OldContents, BOOLEAN),
            b \in Maybe(<< <<"f", ".bak">> >>, OldContents, BOOLEAN),
            c \in Maybe(<< <<"d">>, <<"f">> >>, OldContents, {FALSE})
                    \cup Maybe(<< <<"d">> >>, OldContents, {FALSE})}

MaxRuns == 2

MigIdle ==
    /\ runs = -1
    /\ srcFS = NoFiles
    /\ dstFS = NoFiles
    /\ force = FALSE
    /\ before = NoFiles
    /\ result = Tally([files |-> <<>>])
    /\ log = <<>>

InitMig ==
    /\ runs = 0
    /\ srcFS \in SourceTrees
    /\ dstFS \in TargetTrees
    /\ force \in BOOLEAN
    /\ before = NoFiles
    /\ result = Tally([files |-> <<>>])
    /\ log = <<>>

\* The paths migrateFile is called on: Join(sourceDir, p) and
\* Join(targetDir, p).  f/c lies below f, a file in some source trees.
FilePaths ==
    { << <<"f">> >>, << <<"c">> >>, << <<"d">>, <<"f">> >>, << <<"f">>, <<"c">> >> }

\* migrate.go:87 and 208: fr := migrateFile(srcPath, dstPath, name, force).
CallMigrateFile ==
    /\ runs >= 0
    /\ runs < MaxRuns
    /\ \E p \in FilePaths :
        LET st0 == [fs |-> dstFS, log |-> <<>>, files |-> <<>>, err |-> FALSE]
            st == migrateFile(srcFS, st0, p, p, <<Base(p)>>, force)
        IN  /\ dstFS' = st.fs
            /\ result' = Tally(st)
            /\ log' = st.log
    /\ before' = dstFS
    /\ runs' = runs + 1
    /\ UNCHANGED <<srcFS, force>>

\* main.go:752: result = migrate.MigrateWorkspace(src, dst, force); a later
\* run of the program calls it again on the same trees.
CallMigrateWorkspace ==
    /\ runs >= 0
    /\ runs < MaxRuns
    /\ LET st == MigrateWorkspace(srcFS, dstFS, force)
       IN  /\ dstFS' = st.fs
           /\ result' = Tally(st)
           /\ log' = st.log
    /\ before' = dstFS
    /\ runs' = runs + 1
    /\ UNCHANGED <<srcFS, force>>

(***************************************************************************)
(* Source documents given to ConvertConfig: families that vary one         *)
(* section each, and the documented example.  A channel's field keys are   *)
(* Go strings (bytes), since camelToSnake rewrites them.                   *)
(***************************************************************************)
Absent == [t |-> "absent", v |-> <<>>]

\* The mapping f without the keys whose option is Absent.
MkMap(f) == MapV([k \in {j \in DOMAIN f : f[j].t # "absent"} |-> f[k]])

ProviderConfs ==
    {MapV([apiKey |-> Str("sk-1")]),
     MapV([api_key |-> Str("sk-2"), apiBase |-> Str("http://b")]),
     EmptyMap, Str("oops")}

ProvidersOpts ==
    {Str("none")} \cup MapsOver({"anthropic", "openai", "custom"}, ProviderConfs)

ModelOpts ==
    {Absent, Str("anthropic/claude-x"), Str(""), Num(7),
     MapV([primary |-> Str("m-primary")]),
     MapV([name |-> Str(""), default |-> Str("m-default")]),
     MapV([name |-> Str("m-name"), primary |-> Str("m-primary")]),
     MapV([primary |-> Num(1)])}

AgentMaps ==
    {MkMap([model |-> m, max_tokens |-> a, maxTokens |-> b, temperature |-> c]) :
        m \in ModelOpts,
        a \in {Absent, Num(8192), Num(0), NullV},
        b \in {Absent, Num(8192), Num(4096), Str("")},
        c \in {Absent, Num(1)}}
    \cup
    {MkMap([max_tool_iterations |-> a, maxToolIterations |-> b]) :
        a \in {Absent, Num(10)}, b \in {Absent, Num(20), Num(-1)}}

AgentsOpts ==
    {Absent, EmptyMap,
     MapV([defaults |-> MapV([model |-> Str("m-legacy"), maxTokens |-> Num(512)])])}

ChannelConfs ==
    {MkMap((Key_enabled :> e) @@ (Key_botToken :> b) @@ (Key_bot_token :> c)) :
        e \in {Absent, Bool(TRUE), Bool(FALSE)},
        b \in {Absent, Str("t")},
        c \in {Absent, Str("t"), Str("u")}}
    \cup {Bool(TRUE)}

ChannelsOpts ==
    {Str("none")} \cup MapsOver({"telegram", "whatsapp"}, ChannelConfs)

HeartbeatOpts ==
    {Str("none")}
    \cup {MkMap([enabled |-> e, interval |-> i]) :
            e \in {Absent, Bool(FALSE), Bool(TRUE), Str("no")},
            i \in {Absent, Num(60), Num(0), Str("often")}}

ToolsOpts ==
    {Str("none")}
    \cup {MkMap([web |-> w, cron |-> c]) :
            w \in {Absent, EmptyMap, Str("w"),
                   MapV([brave |-> MapV([apiKey |-> Str("b-1")])])},
            c \in {Absent, MapV([enabled |-> Bool(TRUE)]), Num(1)}}

McpOpts ==
    {MkMap([mcp_servers |-> a, mcpServers |-> b]) :
        a \in {Absent, ListV(<<>>), ListV(<<Str("fs")>>), Str("x")},
        b \in {Absent, ListV(<<Str("git")>>)}}

ExampleDoc ==
    MapV([providers |-> MapV([anthropic |-> MapV([apiKey |-> Str("sk-1")])]),
          agent |-> MapV([model |-> Str("anthropic/claude-x"),
                          maxTokens |-> Num(8192)]),
          channels |->
              MapV([telegram |-> MapV((Key_enabled :> Bool(TRUE))
                                      @@ (Key_botToken :> Str("t"))),
                    whatsapp |-> MapV((Key_enabled :> Bool(TRUE)))])])

\* The example with its providers section of the wrong type, and without it.
ExampleBadProviders == Put(ExampleDoc, "providers", Str("none"))
ExampleNoProviders ==
    MapV([k \in DOMAIN ExampleDoc.v \ {"providers"} |-> ExampleDoc.v[k]])

SourceDocs ==
    {MapV([providers |-> x]) : x \in ProvidersOpts}
    \cup {MapV([agent |-> x]) : x \in AgentMaps \cup {Str("none")}}
    \cup {MkMap([agent |-> a, agents |-> g]) :
            a \in {Absent, Str("none"), EmptyMap, MapV([model |-> Str("m-agent")])},
            g \in AgentsOpts}
    \cup {MapV([channels |-> x]) : x \in ChannelsOpts}
    \cup {MapV([heartbeat |-> x]) : x \in HeartbeatOpts}
    \cup {MapV([tools |-> x]) : x \in ToolsOpts}
    \cup McpOpts
    \cup {ExampleDoc, ExampleBadProviders, ExampleNoProviders}

ConvIdle ==
    /\ convPc = "idle"
    /\ openclawConfig = NilDoc
    /\ picoConfig = NilDoc
    /\ picoConfig2 = NilDoc
    /\ unsupported = <<>>

InitConv ==
    /\ convPc = "start"
    /\ openclawConfig \in SourceDocs
    /\ picoConfig = NilDoc
    /\ picoConfig2 = NilDoc
    /\ unsupported = <<>>

\* The caller's supported set (main.go:810-814) with whatsapp added to it.
supportedMainWider ==
    {"telegram", "discord", "qq", "dingtalk", "line", "slack", "feishu", "onebot",
     "whatsapp"}

\* main.go:810-814: phase4Migrate's own supported map.
supportedMain ==
    {"telegram", "discord", "qq", "dingtalk", "line", "slack", "feishu", "onebot"}

\* detect.go:195-207: the channels that are mappings with enabled == true.
GetConfiguredChannels(config) ==
    IF HasMap(config, "channels")
    THEN LET ch == config.v["channels"]
         IN  {name \in DOMAIN ch.v :
                 /\ IsMap(ch.v[name])
                 /\ Has(ch.v[name], Key_enabled)
                 /\ ch.v[name].v[Key_enabled] = Bool(TRUE)}
    ELSE {}

\* main.go:815-819: the configured channels outside the supported map, in
\* the order GetConfiguredChannels ranged over the channels map.
UnsupportedLists(config) ==
    RangeOrders({ch \in GetConfiguredChannels(config) : ch \notin supportedMain})

\* phase4Migrate: MigrateConfig converts the source document
\* (migrate.go:119: picoConfig := config.ConvertConfig(ocConfig)), then the
\* manual-attention list is built from the same document (main.go:807-825).
CallConvertConfig ==
    /\ convPc = "start"
    /\ \E ord \in ConvertOrders(openclawConfig) :
           picoConfig' = ConvertConfig(openclawConfig, ord)
    /\ unsupported' \in UnsupportedLists(openclawConfig)
    /\ convPc' = "once"
    /\ UNCHANGED <<openclawConfig, picoConfig2>>

\* The same document converted by another run of the program.
CallConvertConfigAgain ==
    /\ convPc = "once"
    /\ \E ord \in ConvertOrders(openclawConfig) :
           picoConfig2' = ConvertConfig(openclawConfig, ord)
    /\ convPc' = "twice"
    /\ UNCHANGED <<openclawConfig, picoConfig, unsupported>>

SnakeIdle ==
    /\ snakePc = "idle"
    /\ key = <<>>
    /\ once = <<>>
    /\ twice = <<>>

InitSnake ==
    /\ snakePc = "start"
    /\ key \in SnakeKeys
    /\ once = <<>>
    /\ twice = <<>>

\* config.go:270: camelToSnake applied to a channel field's key.
CallCamelToSnake ==
    /\ snakePc = "start"
    /\ once' = camelToSnake(key)
    /\ snakePc' = "once"
    /\ UNCHANGED <<key, twice>>

\* The same conversion applied to a key that was already converted.
CallCamelToSnakeAgain ==
    /\ snakePc = "once"
    /\ twice' = camelToSnake(once)
    /\ snakePc' = "twice"
    /\ UNCHANGED <<key, once>>

(***************************************************************************)
(* The command wizard (main.go).  The trace records, in order, every       *)
(* phase banner printed (ui.Phase), every question asked with the line     *)
(* the user typed and what the prompt returned, and every call made to     *)
(* the backup, install, migrate and uninstall packages.  A call's ok is    *)
(* its success where the caller branches on it; a call whose result is     *)
(* only printed is recorded as made.                                       *)
(***************************************************************************)
PhaseEv(no, title) == [ev |-> "phase", name |-> title, n |-> no, ok |-> TRUE, input |-> ""]
AskEv(q, line, yes) == [ev |-> "ask", name |-> q, n |-> 0, ok |-> yes, input |-> line]
CallEv(f, ok) == [ev |-> "call", name |-> f, n |-> 0, ok |-> ok, input |-> ""]

Phase(st, no, title) == [st EXCEPT !.trace = Append(st.trace, PhaseEv(no, title))]
Call(st, f, ok) == [st EXCEPT !.trace = Append(st.trace, CallEv(f, ok))]
Exit(st) == [st EXCEPT !.exit = TRUE]

\* strings.TrimSpace(strings.ToLower(input)) on the lines a user may type.
Lines == {"", "y", "yes", "Y", "n"}
Normalise(line) == IF line = "Y" THEN "y" ELSE line

\* ui.Confirm [Y/n] and ui.ConfirmDangerous [y/N].
Confirm(line) == Normalise(line) \in {"", "y", "yes"}
ConfirmDangerous(line) == Normalise(line) \in {"y", "yes"}

AskConfirm(st, q, line) ==
    [st EXCEPT !.trace = Append(st.trace, AskEv(q, line, Confirm(line)))]
AskDangerous(st, q, line) ==
    [st EXCEPT !.trace = Append(st.trace, AskEv(q, line, ConfirmDangerous(line)))]
\* ui.Choose returns the index of the option picked.
AskChoose(st, q, choice) ==
    [st EXCEPT !.trace = Append(st.trace, AskEv(q, "", choice = 0))]

\* doBackup with the os.Exit(1) after a declined prompt left out.
doBackupNoExit(st, dry, created, verified, line) ==
    IF dry THEN st
    ELSE LET s1 == Call(st, "CreateBackup", created)
         IN  IF ~created
             THEN AskDangerous(s1, "Continue WITHOUT backup?", line)
             ELSE Call(s1, "VerifyBackup", verified)

\* main.go: doBackup(oc, dryRun).  created: backup.CreateBackup succeeded;
\* verified: backup.VerifyBackup succeeded (a failure only warns).
doBackup(st, dry, created, verified, line) ==
    IF dry THEN st
    ELSE LET s1 == Call(st, "CreateBackup", created)
         IN  IF ~created
             THEN LET s2 == AskDangerous(s1, "Continue WITHOUT backup?", line)
                  IN  IF ~ConfirmDangerous(line) THEN Exit(s2) ELSE s2
             ELSE Call(s1, "VerifyBackup", verified)

\* installFromRelease: GetDownloadURL, Download, Extract, InstallBinary;
\* the first failure is fatal.  failAt = 0: none fails.
installFromRelease(st, failAt) ==
    LET s1 == Call(st, "Download", failAt # 1)
        s2 == Call(s1, "Extract", failAt # 2)
        s3 == Call(s2, "InstallBinary", failAt # 3)
    IN  CASE failAt = 1 -> Exit(s1)
          [] failAt = 2 -> Exit(s2)
          [] failAt = 3 -> Exit(s3)
          [] OTHER -> s3

\* installFromSource: a failed build is fatal.
installFromSource(st, failAt) ==
    LET s1 == Call(st, "BuildFromSource", failAt = 0)
    IN  IF failAt # 0 THEN Exit(s1) ELSE s1

\* phase3Install(pc, sys, dryRun).  skipLine answers "Skip installation and
\* use existing PicoClaw?", method is the installation picked.
phase3Install(st, pico, dry, skipLine, method, failAt) ==
    LET s0 == Call(Phase(st, 3, "Install PicoClaw"), "FetchLatestVersion", TRUE)
        s1 == IF pico.BinaryPath
              THEN AskConfirm(s0, "Skip installation and use existing PicoClaw?", skipLine)
              ELSE s0
        s2 == AskChoose(s1, "How would you like to install PicoClaw?", method)
        s3 == IF method = 0 THEN installFromRelease(s2, failAt)
              ELSE installFromSource(s2, failAt)
    IN  IF pico.BinaryPath /\ Confirm(skipLine)
        THEN IF ~pico.Found /\ ~dry THEN Call(s1, "RunOnboard", TRUE) ELSE s1
        ELSE IF dry THEN s2
        ELSE IF s3.exit THEN s3
        ELSE Call(s3, "RunOnboard", TRUE)

\* checkModelVersion(oc, picoHome, dryRun).  outdated: the configured model
\* is a key of modelUpgrades.
checkModelVersion(st, dry, outdated, line) ==
    IF ~outdated \/ dry THEN st
    ELSE LET s1 == AskConfirm(st, "Update model?", line)
         IN  IF Confirm(line) THEN Call(s1, "updateModelInConfig", TRUE) ELSE s1

\* phase4Migrate(oc, pc, dryRun).
phase4Migrate(st, pico, dry, builtInLine, outdated, modelLine) ==
    LET s0 == Phase(st, 4, "Migrate data")
        s1 == IF pico.BinaryPath
              THEN AskConfirm(s0, "Use PicoClaw's built-in migration tool?", builtInLine)
              ELSE s0
        s2 == IF dry THEN s1
              ELSE Call(Call(s1, "MigrateWorkspace", TRUE), "MigrateConfig", TRUE)
    IN  checkModelVersion(s2, dry, outdated, modelLine)

\* phase5Verify(): reads only.
phase5Verify(st) == Phase(st, 5, "Verify migration")

\* phase6Uninstall with the data removed whatever the second answer is.
phase6UninstallUnasked(st, dry, line1, line2) ==
    LET s0 == Phase(st, 6, "Uninstall OpenClaw")
        s1 == AskDangerous(s0, "Uninstall OpenClaw?", line1)
        s2 == Call(Call(Call(s1, "StopOpenClaw", TRUE), "RemoveBinary", TRUE),
                   "RemoveLaunchAgents", TRUE)
        s3 == AskDangerous(s2, "Delete all OpenClaw data?", line2)
    IN  IF ~ConfirmDangerous(line1) \/ dry THEN s1
        ELSE Call(Call(s3, "RemoveData", TRUE), "VerifyRemoved", TRUE)

\* phase6Uninstall(oc, dryRun).
phase6Uninstall(st, dry, line1, line2) ==
    LET s0 == Phase(st, 6, "Uninstall OpenClaw")
        s1 == AskDangerous(s0, "Uninstall OpenClaw?", line1)
        s2 == Call(Call(Call(s1, "StopOpenClaw", TRUE), "RemoveBinary", TRUE),
                   "RemoveLaunchAgents", TRUE)
        s3 == AskDangerous(s2, "Delete all OpenClaw data?", line2)
    IN  IF ~ConfirmDangerous(line1) \/ dry THEN s1
        ELSE IF ~ConfirmDangerous(line2) THEN s3
        ELSE Call(Call(s3, "RemoveData", TRUE), "VerifyRemoved", TRUE)

\* detect.Installation, as far as main.go reads it: Found (the home
\* directory exists) and BinaryPath (non-empty).
Installations == [Found : BOOLEAN, BinaryPath : BOOLEAN]
NotInstalled == [Found |-> FALSE, BinaryPath |-> FALSE]

\* os.Args[1:]: the first word that is no flag, from the commands main
\* knows, none at all, and one it does not know.
Subcommands ==
    {"", "migrate", "backup", "restore", "uninstall", "uninstall-openclaw",
     "uninstall-picoclaw", "frobnicate"}

St == [trace |-> trace, exit |-> FALSE]

Made(tr, f) == \E i \in DOMAIN tr : tr[i] = CallEv(f, TRUE)

CliIdle ==
    /\ cliPc = "idle"
    /\ subcommand = ""
    /\ dryRun = FALSE
    /\ skipInstall = FALSE
    /\ skipUninstall = FALSE
    /\ command = ""
    /\ oc = NotInstalled
    /\ pc = NotInstalled
    /\ trace = <<>>

InitCli ==
    /\ cliPc = "main"
    /\ subcommand \in Subcommands
    /\ dryRun \in BOOLEAN
    /\ skipInstall \in BOOLEAN
    /\ skipUninstall \in BOOLEAN
    /\ command = ""
    /\ oc \in Installations
    /\ pc \in Installations
    /\ trace = <<>>

(***************************************************************************)
(* The heap.  A Go map or slice is a reference to an object of the heap;   *)
(* an object holds cells, and a cell is a scalar or a reference.  heap[a]  *)
(* is the object at address a.  A store into a map is seen through every   *)
(* reference to it.                                                        *)
(***************************************************************************)
Ref(a) == [t |-> "ref", v |-> a]
IsRef(c) == c.t = "ref"
Obj(kind, f) == [kind |-> kind, f |-> f]

\* make(map[string]interface{}): the new map is the last object, at Top.
Make(h) == Append(h, Obj("map", <<>>))
MakeList(h) == Append(h, Obj("list", <<>>))
Top(h) == Len(h)

\* m[k] = c for the map at address a.
Store(h, a, k, c) == [h EXCEPT ![a].f = (k :> c) @@ @]

\* append(list, c) for the slice at address a.
AppendTo(h, a, c) == [h EXCEPT ![a].f = Append(@, c)]

\* json.Unmarshal of value val: its maps and lists become objects.
RECURSIVE Alloc(_, _)
RECURSIVE AllocInto(_, _, _, _)
Alloc(h, val) ==
    IF val.t \notin {"map", "list"} THEN [h |-> h, c |-> val]
    ELSE LET h1 == Append(h, Obj(val.t, <<>>))
         IN  [h |-> AllocInto(h1, Top(h1), val, DOMAIN val.v), c |-> Ref(Top(h1))]

AllocInto(h, a, val, keys) ==
    IF keys = {} THEN h
    ELSE LET k == CHOOSE x \in keys : TRUE
             r == Alloc(h, val.v[k])
         IN  AllocInto(Store(r.h, a, k, r.c), a, val, keys \ {k})

\* The value seen through cell c: what json.Marshal would write.
RECURSIVE Deref(_, _)
Deref(h, c) ==
    IF ~IsRef(c) THEN c
    ELSE [t |-> h[c.v].kind,
          v |-> [k \in DOMAIN h[c.v].f |-> Deref(h, h[c.v].f[k])]]

\* The document at address a.
V(h, a) == Deref(h, Ref(a))

\* The address behind m[k], a key holding a map.
At(h, a, k) == h[a].f[k].v

(***************************************************************************)
(* config.go on the heap: deepMerge and MergeConfig.  Each key is stored   *)
(* once per loop, so the order of the ranges does not show.                *)
(***************************************************************************)
\* for k, v := range from { to[k] = v } over the keys left.
RECURSIVE hCopyAll(_, _, _, _)
hCopyAll(h, from, to, keys) ==
    IF keys = {} THEN h
    ELSE LET k == CHOOSE x \in keys : TRUE
         IN  hCopyAll(Store(h, to, k, h[from].f[k]), from, to, keys \ {k})

RECURSIVE hDeepMerge(_, _, _)
RECURSIVE hOverlay(_, _, _, _)

\* config.go:47-58 and 375-384: the loop over incoming (overlay), storing
\* into the map at address to.
hOverlay(h, to, from, keys) ==
    IF keys = {} THEN h
    ELSE LET k == CHOOSE x \in keys : TRUE
             v == h[from].f[k]
             bothMaps ==
                 /\ k \in DOMAIN h[to].f
                 /\ IsRef(h[to].f[k]) /\ h[h[to].f[k].v].kind = "map"
                 /\ IsRef(v) /\ h[v.v].kind = "map"
             sub == hDeepMerge(h, h[to].f[k].v, v.v)
             next == IF bothMaps THEN Store(sub.h, to, k, sub.c)
                     ELSE Store(h, to, k, v)
         IN  hOverlay(next, to, from, keys \ {k})

\* deepMerge(base, overlay): the heap after it and the reference returned.
hDeepMerge(h, base, overlay) ==
    LET h1 == Make(h)
        mergedAt == Top(h1)
        h2 == hCopyAll(h1, base, mergedAt, DOMAIN h1[base].f)
    IN  [h |-> hOverlay(h2, mergedAt, overlay, DOMAIN h2[overlay].f),
         c |-> Ref(mergedAt)]

\* MergeConfig storing into existing instead of a new map.
hMergeConfigInPlace(h, ex, inc) ==
    IF ex.t = "nil" THEN [h |-> h, c |-> inc]
    ELSE [h |-> hOverlay(h, ex.v, inc.v, DOMAIN h[inc.v].f), c |-> ex]

hMergeConfig(h, ex, inc) ==
    IF ex.t = "nil" THEN [h |-> h, c |-> inc]
    ELSE LET h1 == Make(h)
             mergedAt == Top(h1)
             h2 == hCopyAll(h1, ex.v, mergedAt, DOMAIN h1[ex.v].f)
         IN  [h |-> hOverlay(h2, mergedAt, inc.v, DOMAIN h2[inc.v].f),
              c |-> Ref(mergedAt)]

(***************************************************************************)
(* config.go on the heap: ConvertConfig.  What is read from the source is  *)
(* read through Deref; every store names the map it stores into.  A map    *)
(* literal is Alloc of its value.                                          *)
(***************************************************************************)
\* config.go:123-162: the loop over providers, in the order given.
RECURSIVE hProvidersLoop(_, _, _, _, _)
hProvidersLoop(h, providers, order, picoProviders, modelList) ==
    IF order = <<>> THEN h
    ELSE LET name == Head(order)
             provConf == Deref(h, h[providers].f[name])
             apiKey == ProviderKey(provConf)
             apiBase == ProviderBase(provConf)
             picoProvider == Alloc(h, WithCredentials(EmptyMap, apiKey, apiBase))
             h1 == Store(picoProvider.h, picoProviders, name, picoProvider.c)
             modelEntry ==
                 Alloc(h1, WithCredentials(
                               MapV([model_name |-> Str(name),
                                     model |-> Str(defaultModels[vendorMap[name]])]),
                               apiKey, apiBase))
             h2 == IF name \in DOMAIN vendorMap
                   THEN AppendTo(modelEntry.h, modelList, modelEntry.c) ELSE h1
         IN  hProvidersLoop(IF IsMap(provConf) THEN h2 ELSE h,
                            providers, Tail(order), picoProviders, modelList)

hConvertProviders(h, src, dst, order) ==
    IF ~HasMap(V(h, src), "providers") THEN h
    ELSE LET h1 == MakeList(Make(h))
             picoProviders == Top(h1) - 1
             modelList == Top(h1)
             h2 == hProvidersLoop(h1, At(h, src, "providers"), order,
                                  picoProviders, modelList)
             h3 == IF Len(h2[modelList].f) > 0
                   THEN Store(h2, dst, "model_list", Ref(modelList)) ELSE h2
         IN  IF DOMAIN h3[picoProviders].f # {}
             THEN Store(h3, dst, "providers", Ref(picoProviders)) ELSE h3

\* config.go:222-238: the loop over fieldMap, in the order given.
RECURSIVE hFieldsLoop(_, _, _, _)
hFieldsLoop(h, agent, order, defaults) ==
    IF order = <<>> THEN h
    ELSE LET srcKey == Head(order)
             v == h[agent].f[srcKey]
             copied ==
                 IF v.t = "num" THEN v.v > 0
                 ELSE IF v.t = "str" THEN v.v # ""
                 ELSE TRUE
         IN  hFieldsLoop(IF srcKey \in DOMAIN h[agent].f /\ copied
                         THEN Store(h, defaults, fieldMap[srcKey], v) ELSE h,
                         agent, Tail(order), defaults)

hConvertAgentDefaults(h, src, dst, order) ==
    IF ~HasAgentSection(V(h, src)) THEN h
    ELSE LET agent == IF HasMap(V(h, src), "agent") THEN At(h, src, "agent")
                      ELSE At(h, At(h, src, "agents"), "defaults")
             picoAgent ==
                 Alloc(h, MapV([defaults |->
                                  MapV([workspace |-> Str("~/.picoclaw/workspace")])]))
             defaults == At(picoAgent.h, picoAgent.c.v, "defaults")
             model == WithModel(V(h, agent), EmptyMap)
             h1 == IF Has(model, "model")
                   THEN Store(picoAgent.h, defaults, "model", model.v["model"])
                   ELSE picoAgent.h
             h2 == hFieldsLoop(h1, agent, order, defaults)
         IN  Store(h2, dst, "agents", picoAgent.c)

\* config.go:269-271: the loop over one channel's fields, in the order given.
RECURSIVE hChannelFieldsLoop(_, _, _, _)
hChannelFieldsLoop(h, chConf, order, picoChannel) ==
    IF order = <<>> THEN h
    ELSE hChannelFieldsLoop(
             Store(h, picoChannel, camelToSnake(Head(order)), h[chConf].f[Head(order)]),
             chConf, Tail(order), picoChannel)

\* config.go:258-273: the loop over the channels left that are carried.
RECURSIVE hChannelsLoop(_, _, _, _, _)
hChannelsLoop(h, channels, names, fieldOrders, picoChannels) ==
    IF names = {} THEN h
    ELSE LET name == CHOOSE x \in names : TRUE
             h1 == Make(h)
             picoChannel == Top(h1)
             h2 == hChannelFieldsLoop(h1, At(h, channels, name), fieldOrders[name],
                                      picoChannel)
         IN  hChannelsLoop(Store(h2, picoChannels, name, Ref(picoChannel)),
                           channels, names \ {name}, fieldOrders, picoChannels)

hConvertChannels(h, src, dst, fieldOrders) ==
    IF ~HasMap(V(h, src), "channels") THEN h
    ELSE LET channels == At(h, src, "channels")
             h1 == Make(h)
             picoChannels == Top(h1)
             h2 == hChannelsLoop(h1, channels, CarriedChannels(V(h, channels)),
                                 fieldOrders, picoChannels)
         IN  IF DOMAIN h2[picoChannels].f # {}
             THEN Store(h2, dst, "channels", Ref(picoChannels)) ELSE h2

hConvertTools(h, src, dst) ==
    IF ~HasMap(V(h, src), "tools") THEN h
    ELSE LET tools == At(h, src, "tools")
             h1 == Make(h)
             picoTools == Top(h1)
             h2 == Make(h1)
             picoWeb == Top(h2)
             web == At(h, tools, "web")
             h3 == IF HasMap(V(h, web), "brave")
                   THEN Store(h2, picoWeb, "brave", h[web].f["brave"]) ELSE h2
             duck == Alloc(h3, MapV([enabled |-> Bool(TRUE), max_results |-> Num(5)]))
             h4 == Store(Store(duck.h, picoWeb, "duckduckgo", duck.c),
                         picoTools, "web", Ref(picoWeb))
             h5 == IF HasMap(V(h, tools), "web") THEN h4 ELSE h1
             h6 == IF HasMap(V(h, tools), "cron")
                   THEN Store(h5, picoTools, "cron", h[tools].f["cron"]) ELSE h5
         IN  IF DOMAIN h6[picoTools].f # {}
             THEN Store(h6, dst, "tools", Ref(picoTools)) ELSE h6

hConvertHeartbeat(h, src, dst) ==
    LET picoHeartbeat == Alloc(h, MapV([enabled |-> Bool(TRUE), interval |-> Num(30)]))
        f == h[At(h, src, "heartbeat")].f
        h1 == IF "enabled" \in DOMAIN f /\ f["enabled"].t = "bool"
              THEN Store(picoHeartbeat.h, picoHeartbeat.c.v, "enabled", f["enabled"])
              ELSE picoHeartbeat.h
        h2 == IF "interval" \in DOMAIN f /\ f["interval"].t = "num"
              THEN Store(h1, picoHeartbeat.c.v, "interval", f["interval"])
              ELSE h1
    IN  IF ~HasMap(V(h, src), "heartbeat")
        THEN Store(picoHeartbeat.h, dst, "heartbeat", picoHeartbeat.c)
        ELSE Store(h2, dst, "heartbeat", picoHeartbeat.c)

hConvertMCPServers(h, src, dst) ==
    LET mcpServers ==
            IF IsList(V(h, src), "mcp_servers") THEN h[src].f["mcp_servers"]
            ELSE IF IsList(V(h, src), "mcpServers") THEN h[src].f["mcpServers"]
            ELSE NilDoc
    IN  IF IsRef(mcpServers) /\ DOMAIN h[mcpServers.v].f # {}
        THEN Store(h, dst, "mcp_servers", mcpServers) ELSE h

hConvertConfig(h, src, ord) ==
    LET h0 == Make(h)
        picoConfigAt == Top(h0)
    IN  [h |-> hConvertMCPServers(
                   hConvertHeartbeat(
                       hConvertTools(
                           hConvertChannels(
                               hConvertAgentDefaults(
                                   hConvertProviders(h0, src, picoConfigAt, ord.providers),
                                   src, picoConfigAt, ord.fields),
                               src, picoConfigAt, ord.channelFields),
                           src, picoConfigAt),
                       src, picoConfigAt),
                   src, picoConfigAt),
         c |-> Ref(picoConfigAt)]

(***************************************************************************)
(* Calls on the heap.  The documents were read by config.ReadConfig        *)
(* (json.Unmarshal), each into objects of its own.                         *)
(***************************************************************************)
\* existing (or nil) and incoming, as MigrateConfig gives them to MergeConfig.
MergeInput(ex, inc) ==
    LET e == Alloc(<<>>, ex)
        i == Alloc(e.h, inc)
    IN  [heap |-> i.h, args |-> <<e.c, i.c>>]

ConvertInput(src) ==
    LET s == Alloc(<<>>, src)
    IN  [heap |-> s.h, args |-> <<s.c>>]

HeapIdle ==
    /\ heapPc = "idle"
    /\ callee = "none"
    /\ heap0 = <<>>
    /\ heap = <<>>
    /\ hargs = <<>>
    /\ hord = <<>>
    /\ hret = NilDoc

InitHeap ==
    /\ heapPc = "start"
    /\ \/ \E ex \in MergeDocs \cup {NilDoc}, inc \in MergeDocs :
              /\ callee = "MergeConfig"
              /\ heap = MergeInput(ex, inc).heap
              /\ hargs = MergeInput(ex, inc).args
       \/ \E src \in SourceDocs :
              /\ callee = "ConvertConfig"
              /\ heap = ConvertInput(src).heap
              /\ hargs = ConvertInput(src).args
    /\ heap0 = heap
    /\ hord = <<>>
    /\ hret = NilDoc

\* migrate.go:125-127: picoConfig = config.MergeConfig(existingConfig, picoConfig).
CallMergeConfigOnHeap ==
    /\ heapPc = "start"
    /\ callee = "MergeConfig"
    /\ LET r == hMergeConfig(heap, hargs[1], hargs[2])
       IN  heap' = r.h /\ hret' = r.c
    /\ heap0' = heap
    /\ heapPc' = "done"
    /\ UNCHANGED <<callee, hargs, hord>>

\* migrate.go:119: picoConfig := config.ConvertConfig(ocConfig).
CallConvertConfigOnHeap ==
    /\ heapPc = "start"
    /\ callee = "ConvertConfig"
    /\ \E ord \in ConvertOrders(Deref(heap, hargs[1])) :
           LET r == hConvertConfig(heap, hargs[1].v, ord)
           IN  heap' = r.h /\ hret' = r.c /\ hord' = ord
    /\ heap0' = heap
    /\ heapPc' = "done"
    /\ UNCHANGED <<callee, hargs>>

(***************************************************************************)
(* migrate.go: MigrateConfig on the source configuration file, the target  *)
(* configuration file and its .bak.  A file's data is what it holds: a     *)
(* JSON object (the document), the JSON text null, or bytes that           *)
(* json.Unmarshal into a map rejects.  WriteConfig writes the document as  *)
(* a JSON object.                                                          *)
(***************************************************************************)
Json(doc) == [kind |-> "object", doc |-> doc]
JsonNull == [kind |-> "null", doc |-> NilDoc]
Garbage == [kind |-> "garbage", doc |-> NilDoc]

File(data, ro) == [exists |-> TRUE, ro |-> ro, data |-> data]
NoFile == [exists |-> FALSE, ro |-> FALSE, data |-> Garbage]

\* ReadConfig taking bytes that are no JSON for an absent document.
ReadConfigLenient(file) ==
    IF file.exists /\ file.data.kind = "object"
    THEN [config |-> file.data.doc, err |-> FALSE]
    ELSE [config |-> NilDoc, err |-> FALSE]

\* config.go:73-83: os.ReadFile, then json.Unmarshal into a map; the text
\* null leaves the map nil without an error.
ReadConfig(file) ==
    IF ~file.exists \/ file.data.kind = "garbage"
    THEN [config |-> NilDoc, err |-> TRUE]
    ELSE [config |-> file.data.doc, err |-> FALSE]

\* ConvertConfig of a nil map reads as of an empty one.
AsMap(config) == IF config.t = "nil" THEN EmptyMap ELSE config

\* copyFileSafe(src, dst) on two files: the copy succeeds unless os.Create
\* cannot open dst for writing.
CopyOver(src, dst) ==
    IF dst.exists /\ dst.ro THEN [file |-> dst, err |-> TRUE]
    ELSE [file |-> File(src.data, dst.exists /\ dst.ro), err |-> FALSE]

\* config.go:63-69: WriteConfig; os.WriteFile fails on a read-only file.
WriteConfig(config, file) ==
    IF file.exists /\ file.ro THEN [file |-> file, err |-> TRUE]
    ELSE [file |-> File(Json(config), FALSE), err |-> FALSE]

ConfigResult ==
    [Source |-> "openclaw.json", Dest |-> "config.json", Name |-> "config.json",
     Migrated |-> FALSE, Skipped |-> FALSE, BackedUp |-> FALSE, Error |-> FALSE]

\* migrate.go:104-145.  ord: the orders ConvertConfig's loops take.
MigrateConfig(ocF, picoF, bakF, ord) ==
    LET ocConfig == ReadConfig(ocF)
        converted == ConvertConfig(AsMap(ocConfig.config), ord)
        existingConfig == ReadConfig(picoF).config
        picoConfigNew ==
            IF existingConfig.t # "nil" THEN MergeConfig(existingConfig, converted)
            ELSE converted
        backup == CopyOver(picoF, bakF)
        bak1 == IF picoF.exists THEN backup.file ELSE bakF
        backedUp == picoF.exists /\ ~backup.err
        written == WriteConfig(picoConfigNew, picoF)
    IN  IF ocConfig.err
        THEN [pico |-> picoF, bak |-> bakF, fr |-> [ConfigResult EXCEPT !.Error = TRUE]]
        ELSE IF written.err
        THEN [pico |-> picoF, bak |-> bak1,
              fr |-> [ConfigResult EXCEPT !.BackedUp = backedUp, !.Error = TRUE]]
        ELSE [pico |-> written.file, bak |-> bak1,
              fr |-> [ConfigResult EXCEPT !.BackedUp = backedUp, !.Migrated = TRUE]]

\* The source configuration files.
OcFiles ==
    {NoFile, File(Garbage, FALSE), File(JsonNull, FALSE)}
    \cup {File(Json(d), FALSE) :
            d \in {ExampleDoc, ExampleNoProviders, MapV([agent |-> Str("none")])}}

\* The target configuration files present before the run.
PicoFiles ==
    {NoFile}
    \cup {File(x, ro) :
            x \in {Garbage, JsonNull,
                   Json(MapV([heartbeat |-> MapV([enabled |-> Bool(FALSE)])])),
                   Json(MapV([agents |-> MapV([defaults |->
                                  MapV([model |-> Str("m-kept")])])]))},
            ro \in BOOLEAN}

BakFiles ==
    {NoFile} \cup {File(x, ro) : x \in {Garbage, Json(EmptyMap)}, ro \in BOOLEAN}

CfgIdle ==
    /\ cfgRuns = -1
    /\ ocFile = NoFile
    /\ picoFile = NoFile
    /\ bakFile = NoFile
    /\ picoBefore = NoFile
    /\ bakBefore = NoFile
    /\ cfgResult = ConfigResult

InitCfg ==
    /\ cfgRuns = 0
    /\ ocFile \in OcFiles
    /\ picoFile \in PicoFiles
    /\ bakFile \in BakFiles
    /\ picoBefore = picoFile
    /\ bakBefore = bakFile
    /\ cfgResult = ConfigResult

\* main.go phase4Migrate, step 3: migrate.MigrateConfig(ocConfigPath,
\* picoConfigPath, true); a later run of the program calls it again.
CallMigrateConfig ==
    /\ cfgRuns >= 0
    /\ cfgRuns < MaxRuns
    /\ \E ord \in ConvertOrders(AsMap(ReadConfig(ocFile).config)) :
           LET r == MigrateConfig(ocFile, picoFile, bakFile, ord)
           IN  /\ picoFile' = r.pico
               /\ bakFile' = r.bak
               /\ cfgResult' = r.fr
    /\ picoBefore' = picoFile
    /\ bakBefore' = bakFile
    /\ cfgRuns' = cfgRuns + 1
    /\ UNCHANGED ocFile

(***************************************************************************)
(* main.go runRestore and backup.go RestoreBackup on the home directory:   *)
(* ~/.openclaw and the archives ~/openclaw-backup-*.tar.gz.  A directory   *)
(* is present or not and holds a content; content 0 is what an interrupted *)
(* removal or extraction leaves behind.  An archive is readable by tar or  *)
(* not and holds the content of the directory it was made from.            *)
(***************************************************************************)
MaxBackups == 2
MaxContent == 2
Contents == 1..MaxContent

Dir(c) == [exists |-> TRUE, content |-> c]
NoDir == [exists |-> FALSE, content |-> 0]
PartialDir == Dir(0)

Archives == [readable : BOOLEAN, content : Contents]

\* The outcomes of os.RemoveAll and of tar -xzf: everything done, nothing
\* done, or stopped part of the way.
Outcome == {"all", "none", "part"}

\* backup.go:56-62: tar -tzf lists the archive.
VerifyBackup(archive) == [err |-> ~archive.readable]

\* backup.go:98-116: remove ~/.openclaw if present, then tar -xzf the
\* archive into the home directory.
RestoreBackup(dir, archive, removal, extraction) ==
    IF dir.exists /\ removal # "all"
    THEN [dir |-> IF removal = "none" THEN dir ELSE PartialDir, err |-> TRUE]
    ELSE IF ~archive.readable \/ extraction # "all"
    THEN [dir |-> IF ~archive.readable \/ extraction = "none" THEN NoDir ELSE PartialDir,
          err |-> TRUE]
    ELSE [dir |-> Dir(archive.content), err |-> FALSE]

RestoreIdle ==
    /\ restorePc = "idle"
    /\ openclawDir = NoDir
    /\ dirBefore = NoDir
    /\ backups = <<>>
    /\ selected = 0
    /\ confirmed = FALSE
    /\ verifiedOk = FALSE
    /\ restoreErr = FALSE
    /\ exitCode = 0

InitRestore ==
    /\ restorePc = "runRestore"
    /\ openclawDir \in {NoDir} \cup {Dir(c) : c \in Contents}
    /\ dirBefore = openclawDir
    /\ backups \in UNION {[1..n -> Archives] : n \in 0..MaxBackups}
    /\ selected = 0
    /\ confirmed = FALSE
    /\ verifiedOk = FALSE
    /\ restoreErr = FALSE
    /\ exitCode = 0

\* main.go:148-172: list the archives, let the user choose one and ask
\* "Proceed with restore?".
RestoreChoose ==
    /\ restorePc = "runRestore"
    /\ IF Len(backups) = 0
       THEN /\ restorePc' = "done"
            /\ exitCode' = 1
            /\ UNCHANGED <<selected, confirmed>>
       ELSE \E choice \in 1..Len(backups), line \in Lines :
              /\ selected' = choice
              /\ confirmed' = ConfirmDangerous(line)
              /\ restorePc' = IF ConfirmDangerous(line) THEN "verify" ELSE "done"
              /\ UNCHANGED exitCode
    /\ UNCHANGED <<openclawDir, dirBefore, backups, verifiedOk, restoreErr>>

\* main.go:174-183: verify the selected archive.
RestoreVerify ==
    /\ restorePc = "verify"
    /\ LET verifyErr == VerifyBackup(backups[selected]).err
       IN  /\ verifiedOk' = ~verifyErr
           /\ restorePc' = IF verifyErr THEN "done" ELSE "restore"
           /\ exitCode' = IF verifyErr THEN 1 ELSE 0
    /\ UNCHANGED <<openclawDir, dirBefore, backups, selected, confirmed, restoreErr>>

\* main.go:185-196: restore from the selected archive.
RestoreExtract ==
    /\ restorePc = "restore"
    /\ \E removal \in Outcome, extraction \in Outcome :
         LET r == RestoreBackup(openclawDir, backups[selected], removal, extraction)
         IN  /\ openclawDir' = r.dir
             /\ restoreErr' = r.err
             /\ exitCode' = IF r.err THEN 1 ELSE 0
    /\ restorePc' = "done"
    /\ UNCHANGED <<dirBefore, backups, selected, confirmed, verifiedOk>>

MergeIdle ==
    /\ mergePc = "idle"
    /\ existing = NilDoc
    /\ incoming = NilDoc
    /\ merged = NilDoc

InitMerge ==
    /\ mergePc = "start"
    /\ existing \in MergeDocs \cup {NilDoc}
    /\ incoming \in MergeDocs
    /\ merged = NilDoc
    /\ SnakeIdle
    /\ ConvIdle
    /\ MigIdle
    /\ CliIdle
    /\ HeapIdle
    /\ CfgIdle
    /\ RestoreIdle

\* migrate.go:125-127 and every other caller: one call of MergeConfig.
CallMergeConfig ==
    /\ mergePc = "start"
    /\ merged' = MergeConfig(existing, incoming)
    /\ mergePc' = "merged"
    /\ UNCHANGED <<existing, incoming>>

NextMerge == CallMergeConfig /\ UNCHANGED <<snakeVars, convVars, migVars, cliVars, heapVars, cfgVars, restoreVars>>

SpecMerge == InitMerge /\ [][NextMerge]_vars

(***************************************************************************)
(* Claim C1.  MergeConfig(existing, incoming): at every key where both     *)
(* documents hold a nested mapping, the merged mapping keeps existing's    *)
(* value for each leaf key both sides define and adds each leaf key only   *)
(* incoming defines ({a:{x:1}} with {a:{x:2,y:3}} gives {a:{x:1,y:3}}).    *)
(* The code lets incoming's leaf win: the formula is violated.             *)
(***************************************************************************)
C1_ExistingLeafWins ==
    (mergePc = "merged" /\ IsMap(existing)) =>
        \A k \in DOMAIN existing.v \cap DOMAIN incoming.v :
            (IsMap(existing.v[k]) /\ IsMap(incoming.v[k])) =>
                /\ IsMap(merged.v[k])
                /\ \A j \in DOMAIN incoming.v[k].v :
                    IF Has(existing.v[k], j)
                    THEN (~IsMap(existing.v[k].v[j]) /\ ~IsMap(incoming.v[k].v[j]))
                            => merged.v[k].v[j] = existing.v[k].v[j]
                    ELSE Has(merged.v[k], j)
                            /\ merged.v[k].v[j] = incoming.v[k].v[j]

(***************************************************************************)
(* Claim C14.  MergeConfig with an absent (nil) existing document returns  *)
(* exactly the incoming document, unchanged.                               *)
(***************************************************************************)
C14_NilExistingIsIdentity ==
    (mergePc = "merged" /\ existing = NilDoc) => merged = incoming

\* A nested incoming document was merged into a missing existing one.
C14_Witness ==
    /\ mergePc = "merged"
    /\ existing = NilDoc
    /\ HasMap(incoming, "a")
    /\ HasMap(incoming.v["a"], "x")
    /\ Has(incoming, "b")

\* The existing document's mapping, empty when the document is missing.
ExistingKeys == IF IsMap(existing) THEN DOMAIN existing.v ELSE {}

InitConvSpec == InitConv /\ MergeIdle /\ SnakeIdle /\ MigIdle /\ CliIdle /\ HeapIdle /\ CfgIdle /\ RestoreIdle

NextConv ==
    (CallConvertConfig \/ CallConvertConfigAgain)
        /\ UNCHANGED <<mergeVars, snakeVars, migVars, cliVars, heapVars, cfgVars, restoreVars>>

SpecConvert == InitConvSpec /\ [][NextConv]_vars

\* A target document with model_list read as the set of its entries.
AsSet(doc) ==
    IF Has(doc, "model_list")
    THEN Put(doc, "model_list",
             [t |-> "set",
              v |-> {doc.v["model_list"].v[i] : i \in DOMAIN doc.v["model_list"].v}])
    ELSE doc

(***************************************************************************)
(* Claim C8.  ConvertConfig is a function of its input document: two       *)
(* conversions of the same source document yield the same target document  *)
(* (model_list compared as a set), also when the document carries both     *)
(* spellings of an aliased key or two channel fields that rewrite to the   *)
(* same key.  The loops range over Go maps, so with both spellings the     *)
(* value written last wins and that differs between runs: violated.        *)
(***************************************************************************)
C8_ConvertIsFunction ==
    convPc = "twice" => AsSet(picoConfig) = AsSet(picoConfig2)

\* The channels section of a document, or the empty mapping.
ChannelsOf(doc) == IF HasMap(doc, "channels") THEN doc.v["channels"] ELSE EmptyMap

\* The fields of channel configuration chConf that rewrite to key d.
RewrittenTo(chConf, d) == {k \in DOMAIN chConf.v : camelToSnake(k) = d}

Converted == convPc \in {"once", "twice"}

C9_OnlySupported ==
    \A name \in DOMAIN ChannelsOf(picoConfig).v :
        /\ name \in supported
        /\ HasMap(ChannelsOf(openclawConfig), name)

(***************************************************************************)
(* Claim C9 as stated.  No channel name outside the supported set is a     *)
(* key of the target channels, and every field of a carried-over channel   *)
(* appears under its rewritten key with its value unchanged.  Two fields   *)
(* that rewrite to one key (botToken, bot_token) cannot both keep their    *)
(* value: violated.                                                        *)
(***************************************************************************)
C9_EveryFieldKept ==
    Converted =>
        /\ C9_OnlySupported
        /\ \A name \in DOMAIN ChannelsOf(picoConfig).v :
            \A k \in DOMAIN ChannelsOf(openclawConfig).v[name].v :
                /\ Has(ChannelsOf(picoConfig).v[name], camelToSnake(k))
                /\ ChannelsOf(picoConfig).v[name].v[camelToSnake(k)]
                       = ChannelsOf(openclawConfig).v[name].v[k]

(***************************************************************************)
(* Claim C9 as amended.  No channel name outside the supported set is a    *)
(* key of the target channels; every field of a carried-over channel has   *)
(* its rewritten key in the target channel, holding its value unchanged    *)
(* when no other field of that channel rewrites to the same key, and the   *)
(* value of one of the fields that rewrite to it otherwise; the target     *)
(* channel has no other key.                                               *)
(***************************************************************************)
C9_FieldsKeptUpToCollision ==
    Converted =>
        /\ C9_OnlySupported
        /\ \A name \in DOMAIN ChannelsOf(picoConfig).v :
            LET chConf == ChannelsOf(openclawConfig).v[name]
                picoChannel == ChannelsOf(picoConfig).v[name]
            IN  /\ DOMAIN picoChannel.v = {camelToSnake(k) : k \in DOMAIN chConf.v}
                /\ \A d \in DOMAIN picoChannel.v :
                       picoChannel.v[d] \in
                           {chConf.v[k] : k \in RewrittenTo(chConf, d)}

\* A supported channel was carried over with a camelCase field rewritten,
\* beside an unsupported channel that was dropped.
C9_Witness ==
    /\ convPc = "once"
    /\ HasMap(ChannelsOf(openclawConfig), "whatsapp")
    /\ HasMap(ChannelsOf(openclawConfig), "telegram")
    /\ Key_botToken \in DOMAIN ChannelsOf(openclawConfig).v["telegram"].v
    /\ Key_bot_token \notin DOMAIN ChannelsOf(openclawConfig).v["telegram"].v
    /\ Has(ChannelsOf(picoConfig), "telegram")
    /\ Key_bot_token \in DOMAIN ChannelsOf(picoConfig).v["telegram"].v

\* The providers section of a document, or the empty mapping.
ProvidersOf(doc) == IF HasMap(doc, "providers") THEN doc.v["providers"] ELSE EmptyMap

\* The entries of a document's model_list.
ModelListOf(doc) == IF Has(doc, "model_list") THEN doc.v["model_list"].v ELSE <<>>

\* The recognized vendor table.
VendorNames ==
    {"openrouter", "anthropic", "openai", "gemini", "zhipu", "groq", "deepseek", "ollama"}

\* The positions of the model_list entries named name.
EntriesNamed(ml, name) == {i \in DOMAIN ml : ml[i].v["model_name"] = Str(name)}

\* entry is the model_list entry of provider name with configuration provConf.
IsEntryOf(entry, name, provConf) ==
    /\ entry.v["model"] = Str(defaultModels[name])
    /\ Has(entry, "api_key") <=> ProviderKey(provConf) # ""
    /\ Has(entry, "api_key") => entry.v["api_key"] = Str(ProviderKey(provConf))
    /\ Has(entry, "api_base") <=> ProviderBase(provConf) # ""
    /\ Has(entry, "api_base") => entry.v["api_base"] = Str(ProviderBase(provConf))
    /\ DOMAIN entry.v \subseteq {"model_name", "model", "api_key", "api_base"}

(***************************************************************************)
(* Claim C11.  For every recognized vendor name present in the source      *)
(* providers with an object value, model_list holds exactly one entry      *)
(* whose model_name is that name and whose model is the vendor's default,  *)
(* with api_key / api_base only when non-empty; a name outside the table   *)
(* never appears in model_list but is still in the target providers.  (A   *)
(* provider whose value is no object is skipped in both.)                  *)
(***************************************************************************)
C11_ModelListPerVendor ==
    Converted =>
        LET providers == ProvidersOf(openclawConfig)
            ml == ModelListOf(picoConfig)
        IN  /\ \A name \in DOMAIN providers.v :
                   IF ~IsMap(providers.v[name])
                   THEN EntriesNamed(ml, name) = {}
                            /\ ~Has(ProvidersOf(picoConfig), name)
                   ELSE IF name \in VendorNames
                   THEN /\ Cardinality(EntriesNamed(ml, name)) = 1
                        /\ \A i \in EntriesNamed(ml, name) :
                               IsEntryOf(ml[i], name, providers.v[name])
                   ELSE /\ EntriesNamed(ml, name) = {}
                        /\ Has(ProvidersOf(picoConfig), name)
            /\ \A i \in DOMAIN ml :
                   \E name \in DOMAIN providers.v : ml[i].v["model_name"] = Str(name)

\* Two recognized vendors, one with a key and one without credentials, and
\* an unrecognized provider were converted.
C11_Witness ==
    /\ convPc = "once"
    /\ Has(ProvidersOf(openclawConfig), "anthropic")
    /\ Has(ProvidersOf(openclawConfig), "openai")
    /\ Has(ProvidersOf(openclawConfig), "custom")
    /\ ProvidersOf(openclawConfig).v["anthropic"] = MapV([apiKey |-> Str("sk-1")])
    /\ ProvidersOf(openclawConfig).v["openai"] = EmptyMap
    /\ IsMap(ProvidersOf(openclawConfig).v["custom"])
    /\ Len(ModelListOf(picoConfig)) = 2
    /\ Has(ProvidersOf(picoConfig), "custom")

(***************************************************************************)
(* Claim C12.  When the source has no providers section, or its providers  *)
(* value is not an object, the converted document has neither a            *)
(* model_list key nor a providers key, and the other sections are still    *)
(* produced: heartbeat always, agents when the source has an agent         *)
(* section, channels when a supported channel object is present.           *)
(***************************************************************************)
C12_NoProvidersNoKeys ==
    (Converted /\ ~HasMap(openclawConfig, "providers")) =>
        /\ ~Has(picoConfig, "model_list")
        /\ ~Has(picoConfig, "providers")
        /\ Has(picoConfig, "heartbeat")
        /\ HasAgentSection(openclawConfig) => Has(picoConfig, "agents")
        /\ CarriedChannels(ChannelsOf(openclawConfig)) # {} => Has(picoConfig, "channels")

\* The example with providers of the wrong type was converted, its agent
\* and channels sections produced.
C12_Witness ==
    /\ convPc = "once"
    /\ openclawConfig = ExampleBadProviders
    /\ Has(picoConfig, "agents")
    /\ Has(picoConfig, "channels")
    /\ Has(picoConfig, "heartbeat")

\* Field k of the source heartbeat when it has type ty, else the default.
HeartbeatField(doc, k, ty, default) ==
    IF HasMap(doc, "heartbeat") /\ Has(doc.v["heartbeat"], k)
           /\ doc.v["heartbeat"].v[k].t = ty
    THEN doc.v["heartbeat"].v[k]
    ELSE default

(***************************************************************************)
(* Claim C13.  Every converted document contains a heartbeat object.  It   *)
(* is {enabled: true, interval: 30} when the source has no heartbeat       *)
(* object; otherwise enabled takes the source value only if that is a      *)
(* boolean and interval only if that is a number, each independently, the  *)
(* other field keeping its default.                                        *)
(***************************************************************************)
C13_HeartbeatDefaults ==
    Converted =>
        /\ HasMap(picoConfig, "heartbeat")
        /\ DOMAIN picoConfig.v["heartbeat"].v = {"enabled", "interval"}
        /\ picoConfig.v["heartbeat"].v["enabled"]
               = HeartbeatField(openclawConfig, "enabled", "bool", Bool(TRUE))
        /\ picoConfig.v["heartbeat"].v["interval"]
               = HeartbeatField(openclawConfig, "interval", "num", Num(30))

\* A heartbeat with a usable interval and an enabled of the wrong type.
C13_Witness ==
    /\ convPc = "once"
    /\ HasMap(openclawConfig, "heartbeat")
    /\ openclawConfig.v["heartbeat"]
           = MapV([enabled |-> Str("no"), interval |-> Num(60)])
    /\ picoConfig.v["heartbeat"] = MapV([enabled |-> Bool(TRUE), interval |-> Num(60)])

Flagged == {unsupported[i] : i \in DOMAIN unsupported}

\* The channels of the converted document.
MigratedChannels == DOMAIN ChannelsOf(picoConfig).v

DefaultsOf(doc) == doc.v["agents"].v["defaults"]

ModelKeys == <<"primary", "name", "model", "default">>

Without(doc, k) == MapV([j \in DOMAIN doc.v \ {k} |-> doc.v[j]])

\* What the source converts to when its agents section is taken away.
ConvertedWithoutAgents ==
    {ConvertConfig(Without(openclawConfig, "agents"), o) :
        o \in ConvertOrders(Without(openclawConfig, "agents"))}

IsEmptyValue(x) ==
    \/ x.t = "num" /\ x.v <= 0
    \/ x.t = "str" /\ x.v = ""
    \/ x.t = "null"

(***************************************************************************)
(* Claim C23.  max_tokens/maxTokens, temperature and                       *)
(* max_tool_iterations/maxToolIterations are copied into agents.defaults   *)
(* only when the source value is non-empty and non-zero: each of the three *)
(* target keys that is present holds the value of one of its source        *)
(* spellings, and that value is not zero, negative, an empty string or     *)
(* null.  The code copies every value that is neither a number nor a       *)
(* string, null included: violated.                                        *)
(***************************************************************************)
C23_OnlyNonEmptyFieldsCopied ==
    (Converted /\ Has(picoConfig, "agents")) =>
        LET agent == AgentSection(openclawConfig)
            d == DefaultsOf(picoConfig)
        IN  \A dstKey \in {fieldMap[k] : k \in DOMAIN fieldMap} :
                Has(d, dstKey) =>
                    /\ ~IsEmptyValue(d.v[dstKey])
                    /\ \E srcKey \in DOMAIN fieldMap :
                           /\ fieldMap[srcKey] = dstKey
                           /\ Has(agent, srcKey)
                           /\ agent.v[srcKey] = d.v[dstKey]

\* The source providers that are objects.
ProviderObjects ==
    IF HasMap(openclawConfig, "providers")
    THEN {n \in DOMAIN openclawConfig.v["providers"].v :
              IsMap(openclawConfig.v["providers"].v[n])}
    ELSE {}

\* The non-empty string of provider conf under key snake, else under camel.
Credential(conf, snake, camel) ==
    IF GetStr(conf, snake) # "" THEN GetStr(conf, snake) ELSE GetStr(conf, camel)

(***************************************************************************)
(* Claim C24 as stated.  Every entry of the target providers mapping       *)
(* carries at least one of api_key and api_base, and providers is omitted  *)
(* when no entry was produced.  The code stores providers[name] for every  *)
(* source provider that is an object, an empty entry when it has neither   *)
(* credential: violated.                                                   *)
(***************************************************************************)
C24_ProviderEntriesCarryCredentials ==
    Converted =>
        /\ Has(picoConfig, "providers") =>
               /\ DOMAIN picoConfig.v["providers"].v # {}
               /\ \A n \in DOMAIN picoConfig.v["providers"].v :
                      \/ Has(picoConfig.v["providers"].v[n], "api_key")
                      \/ Has(picoConfig.v["providers"].v[n], "api_base")

(***************************************************************************)
(* Claim C24 as amended.  The target providers mapping has one entry for   *)
(* every source provider that is an object and no other; the entry holds   *)
(* api_key exactly when the source's API key (api_key, else apiKey) is a   *)
(* non-empty string, api_base likewise, and nothing else, so it is empty   *)
(* when the provider has neither; providers is omitted exactly when no     *)
(* source provider is an object.                                           *)
(***************************************************************************)
C24_ProviderEntryPerObject ==
    Converted =>
        /\ Has(picoConfig, "providers") <=> ProviderObjects # {}
        /\ Has(picoConfig, "providers") =>
               /\ DOMAIN picoConfig.v["providers"].v = ProviderObjects
               /\ \A n \in ProviderObjects :
                      LET conf == openclawConfig.v["providers"].v[n]
                          e == picoConfig.v["providers"].v[n]
                          apiKey == Credential(conf, "api_key", "apiKey")
                          apiBase == Credential(conf, "api_base", "apiBase")
                      IN  /\ DOMAIN e.v \subseteq {"api_key", "api_base"}
                          /\ Has(e, "api_key") <=> apiKey # ""
                          /\ Has(e, "api_key") => e.v["api_key"] = Str(apiKey)
                          /\ Has(e, "api_base") <=> apiBase # ""
                          /\ Has(e, "api_base") => e.v["api_base"] = Str(apiBase)

\* An entry with both credentials beside an entry with none.
C24_Witness ==
    /\ Converted
    /\ Has(picoConfig, "providers")
    /\ \E n, m \in DOMAIN picoConfig.v["providers"].v :
           /\ DOMAIN picoConfig.v["providers"].v[n].v = {"api_key", "api_base"}
           /\ picoConfig.v["providers"].v[m] = EmptyMap

InitMigSpec == InitMig /\ MergeIdle /\ SnakeIdle /\ ConvIdle /\ CliIdle /\ HeapIdle /\ CfgIdle /\ RestoreIdle

NextMig == CallMigrateWorkspace /\ UNCHANGED <<mergeVars, snakeVars, convVars, cliVars, heapVars, cfgVars, restoreVars>>

SpecMigrate == InitMigSpec /\ [][NextMig]_vars

\* Some name on path p is in the skip-set.
HasSkipName(p) == \E i \in DOMAIN p : p[i] \in SkipEntries

\* What a tree holds: its paths, and every file's content.
Tree(fs) == [p \in DOMAIN fs |-> [kind |-> fs[p].kind, content |-> fs[p].content]]

(***************************************************************************)
(* Claim C2.  Whenever a workspace file is migrated onto a destination     *)
(* that already exists, with force on or off, the prior content is first   *)
(* copied to <dst>.bak, only then is the new content written, and the      *)
(* record has BackedUp = true.  migrateFile takes the backup only when     *)
(* force is off, and the wizard passes force = true: violated.             *)
(***************************************************************************)
C2_BackupBeforeOverwrite ==
    runs >= 1 =>
        \A i \in DOMAIN log :
            (~log[i].inTarget /\ log[i].prev # None) =>
                /\ i > 1
                /\ log[i - 1].inTarget
                /\ log[i - 1].from = log[i].to
                /\ log[i - 1].to = Bak(log[i].to)
                /\ log[i - 1].content = log[i].prev
                /\ \A j \in DOMAIN result.Files :
                       result.Files[j].Dest = log[i].to => result.Files[j].BackedUp

(***************************************************************************)
(* Claim C3.  After MigrateWorkspace no file or directory whose name is    *)
(* in the skip-set has been created or copied under the target root, at    *)
(* whatever depth it sits in the source tree, and no record refers to      *)
(* one.  migrateDirectory never consults SkipEntries: violated by a        *)
(* skip-set name below a migrated directory.                               *)
(***************************************************************************)
C3_SkipSetNeverMigrated ==
    runs >= 1 =>
        /\ \A p \in DOMAIN dstFS \ DOMAIN before : ~HasSkipName(p)
        /\ \A i \in DOMAIN log : ~HasSkipName(log[i].to)
        /\ \A j \in DOMAIN result.Files : ~HasSkipName(result.Files[j].Source)

(***************************************************************************)
(* Claim C7 as stated.  MigrateWorkspace is idempotent for any source      *)
(* tree, target tree and flag value: a second run with the same arguments  *)
(* leaves the target tree as the first run left it.  With force off the    *)
(* second run backs up what the first run wrote: violated.                 *)
(***************************************************************************)
C7_Idempotent ==
    runs >= 2 => Tree(dstFS) = Tree(before)

(***************************************************************************)
(* Claim C7 as amended.  With force = true (what the wizard passes), a     *)
(* second and any later run of MigrateWorkspace with the same arguments    *)
(* on an unchanged source leaves the target tree, its paths and every      *)
(* file's content, as the run before left it.                              *)
(***************************************************************************)
C7_IdempotentWhenForced ==
    (runs >= 2 /\ force) => Tree(dstFS) = Tree(before)

\* A forced second run that copied files again, one of them in a directory.
C7_Witness ==
    /\ runs = 2
    /\ force
    /\ result.Migrated >= 2
    /\ \E i \in DOMAIN log : log[i].to = << <<"d">>, <<"f">> >> /\ log[i].prev = 3

\* The source files MigrateWorkspace is to visit: every file not below a
\* skipped top-level entry, in directories that can be listed.
Visited ==
    {p \in DOMAIN srcFS :
        /\ IsFileAt(srcFS, p)
        /\ p[1] \notin SkipEntries
        /\ \A q \in Ancestors(p) : CanList(srcFS, q)}

(***************************************************************************)
(* Claim C17.  When copying a workspace file fails, its record carries the *)
(* error with Migrated = false and Skipped = false, every other file of    *)
(* the workspace, sibling or descendant, still gets its record, and        *)
(* Result.Errors is at least 1.                                            *)
(***************************************************************************)
C17_ErrorsRecordedRunContinues ==
    runs >= 1 =>
        /\ \A i \in DOMAIN result.Files :
               result.Files[i].Error =>
                   ~result.Files[i].Migrated /\ ~result.Files[i].Skipped
        /\ {result.Files[i].Source : i \in DOMAIN result.Files} = Visited
        /\ result.TotalFiles = Cardinality(Visited)
        /\ (\E i \in DOMAIN result.Files : result.Files[i].Error) => result.Errors >= 1

\* A copy failed and a file after it was migrated.
C17_Witness ==
    /\ runs >= 1
    /\ \E i, j \in DOMAIN result.Files :
           /\ i < j
           /\ result.Files[i].Error
           /\ result.Files[j].Migrated
    /\ result.Errors >= 1

\* How many of the three outcomes record fr has.
Outcomes(fr) ==
    (IF fr.Migrated THEN 1 ELSE 0) + (IF fr.Skipped THEN 1 ELSE 0)
        + (IF fr.Error THEN 1 ELSE 0)

(***************************************************************************)
(* Claim C25.  In every Result of MigrateWorkspace each record of Files    *)
(* has exactly one of the outcomes migrated, skipped, errored, and the     *)
(* tallies partition the records: TotalFiles = len(Files) = Migrated +     *)
(* Skipped + Errors, each counter being the number of records with that    *)
(* outcome.                                                                *)
(***************************************************************************)
C25_TalliesPartitionRecords ==
    runs >= 1 =>
        /\ \A i \in DOMAIN result.Files : Outcomes(result.Files[i]) = 1
        /\ result.TotalFiles = Len(result.Files)
        /\ result.TotalFiles = result.Migrated + result.Skipped + result.Errors
        /\ result.Migrated = Cardinality({i \in DOMAIN result.Files : result.Files[i].Migrated})
        /\ result.Skipped = Cardinality({i \in DOMAIN result.Files : result.Files[i].Skipped})
        /\ result.Errors = Cardinality({i \in DOMAIN result.Files : result.Files[i].Error})

\* A run with migrated and errored records.
C25_Witness ==
    /\ runs >= 1
    /\ result.TotalFiles >= 3
    /\ result.Migrated >= 1
    /\ result.Errors >= 1

\* The regular files of the source workspace outside the skipped top-level
\* entries.
SourceFiles == {p \in DOMAIN srcFS : IsFileAt(srcFS, p) /\ p[1] \notin SkipEntries}

(***************************************************************************)
(* Claim C26.  Every regular file under the source workspace root outside  *)
(* the skipped top-level entries gets exactly one record in Result.Files;  *)
(* a source directory, or the source root, that cannot be listed is        *)
(* reported through an error record and a non-zero Result.Errors.          *)
(* MigrateWorkspace and migrateDirectory return what they have, without a  *)
(* record, when os.ReadDir fails: violated.                                *)
(***************************************************************************)
C26_EveryFileHasARecord ==
    runs >= 1 =>
        /\ \A p \in SourceFiles :
               Cardinality({i \in DOMAIN result.Files : result.Files[i].Source = p}) = 1
        /\ (\E p \in SourceFiles : \E q \in Ancestors(p) : ~CanList(srcFS, q))
               => result.Errors >= 1

InitFileSpec == InitMig /\ MergeIdle /\ SnakeIdle /\ ConvIdle /\ CliIdle /\ HeapIdle /\ CfgIdle /\ RestoreIdle

NextFile == CallMigrateFile /\ UNCHANGED <<mergeVars, snakeVars, convVars, cliVars, heapVars, cfgVars, restoreVars>>

SpecMigrateFile == InitFileSpec /\ [][NextFile]_vars

\* The record of the call just made.
LastRecord == result.Files[1]

(***************************************************************************)
(* Claim C16.  Migrating a single file whose source path does not exist    *)
(* yields exactly one record, with Skipped = true, Migrated = false, no    *)
(* error and BackedUp = false, and the target is what it was: no           *)
(* destination file, no .bak file and no parent directory is created or    *)
(* changed.  migrateFile skips on ENOENT only; a source path below a       *)
(* regular file fails os.Stat with ENOTDIR and is copied: violated.        *)
(***************************************************************************)
C16_MissingSourceIsSkipped ==
    (runs >= 1 /\ ~Exists(srcFS, LastRecord.Source)) =>
        /\ result.TotalFiles = 1
        /\ LastRecord.Skipped
        /\ ~LastRecord.Migrated
        /\ ~LastRecord.Error
        /\ ~LastRecord.BackedUp
        /\ dstFS = before

InitHeapSpec == InitHeap /\ MergeIdle /\ SnakeIdle /\ ConvIdle /\ MigIdle /\ CliIdle /\ CfgIdle /\ RestoreIdle

NextHeap ==
    /\ \/ CallMergeConfigOnHeap
       \/ CallConvertConfigOnHeap
    /\ UNCHANGED <<mergeVars, snakeVars, convVars, migVars, cliVars, cfgVars, restoreVars>>

SpecHeap == InitHeapSpec /\ [][NextHeap]_vars

\* The addresses reachable from cell c.
RECURSIVE Reach(_, _)
Reach(h, c) ==
    IF ~IsRef(c) THEN {}
    ELSE {c.v} \cup UNION {Reach(h, h[c.v].f[k]) : k \in DOMAIN h[c.v].f}

\* What the call returned is what the same call on values returns.
HeapAgreesWithValues ==
    heapPc = "done" =>
        Deref(heap, hret) =
            IF callee = "MergeConfig"
            THEN MergeConfig(Deref(heap0, hargs[1]), Deref(heap0, hargs[2]))
            ELSE ConvertConfig(Deref(heap0, hargs[1]), hord)

(***************************************************************************)
(* Claim C18.  ConvertConfig leaves its source document unchanged and      *)
(* MergeConfig leaves its existing and incoming documents unchanged: after *)
(* the call every key and value of each argument, at every depth, is what  *)
(* it was before the call.                                                 *)
(***************************************************************************)
C18_ArgumentsUnchanged ==
    heapPc = "done" =>
        \A i \in DOMAIN hargs :
            /\ Deref(heap, hargs[i]) = Deref(heap0, hargs[i])
            /\ \A a \in Reach(heap0, hargs[i]) : heap[a] = heap0[a]

\* MergeConfig merged two nested mappings and returned a new map that
\* shares a mapping with existing.
C18_Witness ==
    /\ heapPc = "done"
    /\ callee = "MergeConfig"
    /\ IsRef(hargs[1])
    /\ hret \notin {hargs[1], hargs[2]}
    /\ Len(heap) > Len(heap0) + 1
    /\ Reach(heap, hret) \cap Reach(heap0, hargs[1]) # {}

(***************************************************************************)
(* Claim C27.  A record with BackedUp = true implies that <dst>.bak exists *)
(* and holds exactly the content the destination had before the step; the  *)
(* flag is never set when the backup copy did not succeed.  migrateFile    *)
(* drops the error of the backup copy and sets the flag regardless:        *)
(* violated.                                                               *)
(***************************************************************************)
C27_BackedUpMeansBakHoldsOld ==
    (runs >= 1 /\ LastRecord.BackedUp) =>
        /\ IsFileAt(before, LastRecord.Dest)
        /\ IsFileAt(dstFS, Bak(LastRecord.Dest))
        /\ ContentAt(dstFS, Bak(LastRecord.Dest)) = ContentAt(before, LastRecord.Dest)

InitCfgSpec == InitCfg /\ MergeIdle /\ SnakeIdle /\ ConvIdle /\ MigIdle /\ CliIdle /\ HeapIdle /\ RestoreIdle

NextCfg ==
    CallMigrateConfig
        /\ UNCHANGED <<mergeVars, snakeVars, convVars, migVars, cliVars, heapVars, restoreVars>>

SpecConfig == InitCfgSpec /\ [][NextCfg]_vars

(***************************************************************************)
(* Claim C28.  Whenever MigrateConfig writes the target configuration over *)
(* a file that already exists, the content that file had before the write  *)
(* is in <config>.bak after the call; the existing target is never         *)
(* overwritten when the backup copy could not be made.  MigrateConfig      *)
(* writes whether the backup copy succeeded or not: violated.              *)
(***************************************************************************)
C28_ConfigBackedUpBeforeWrite ==
    (cfgRuns >= 1 /\ cfgResult.Migrated /\ picoBefore.exists) =>
        /\ bakFile.exists
        /\ bakFile.data = picoBefore.data

(***************************************************************************)
(* Claim C29.  If the source configuration file is missing or is not valid *)
(* JSON, MigrateConfig returns a record with an error, Migrated = false    *)
(* and BackedUp = false, and the target side is untouched: the target      *)
(* configuration keeps its content and no .bak is created or changed.      *)
(***************************************************************************)
C29_UnreadableSourceTouchesNothing ==
    (cfgRuns >= 1 /\ (~ocFile.exists \/ ocFile.data.kind = "garbage")) =>
        /\ cfgResult.Error
        /\ ~cfgResult.Migrated
        /\ ~cfgResult.BackedUp
        /\ picoFile = picoBefore
        /\ bakFile = bakBefore

\* A call on a source that is no JSON, beside a target that exists.
C29_Witness ==
    /\ cfgRuns >= 1
    /\ ocFile.exists
    /\ ocFile.data.kind = "garbage"
    /\ picoFile.exists
    /\ ~picoFile.ro
    /\ cfgResult.Error

InitRestoreSpec == InitRestore /\ MergeIdle /\ SnakeIdle /\ ConvIdle /\ MigIdle /\ CliIdle /\ HeapIdle /\ CfgIdle

NextRestore ==
    /\ \/ RestoreChoose
       \/ RestoreVerify
       \/ RestoreExtract
    /\ UNCHANGED <<mergeVars, snakeVars, convVars, migVars, cliVars, heapVars, cfgVars>>

SpecRestore == InitRestoreSpec /\ [][NextRestore]_vars

(***************************************************************************)
(* Claim C30.  The restore command never leaves the user without an        *)
(* OpenClaw data directory: ~/.openclaw is changed only after the user     *)
(* confirmed and the selected archive passed verification, and if          *)
(* RestoreBackup returns an error the ~/.openclaw that existed before the  *)
(* call is still present with its content.  RestoreBackup removes the      *)
(* directory before it extracts: violated when the extraction fails.       *)
(***************************************************************************)
C30_RestoreKeepsOpenClawDir ==
    /\ openclawDir # dirBefore => confirmed /\ verifiedOk
    /\ restoreErr => openclawDir = dirBefore

InitSnakeSpec == InitSnake /\ MergeIdle /\ ConvIdle /\ MigIdle /\ CliIdle /\ HeapIdle /\ CfgIdle /\ RestoreIdle

NextSnake ==
    (CallCamelToSnake \/ CallCamelToSnakeAgain)
        /\ UNCHANGED <<mergeVars, convVars, migVars, cliVars, heapVars, cfgVars, restoreVars>>

SpecSnake == InitSnakeSpec /\ [][NextSnake]_vars

(***************************************************************************)
(* Claim C10.  camelToSnake is total and idempotent: for every key k,      *)
(* camelToSnake(camelToSnake(k)) = camelToSnake(k); a key with no          *)
(* uppercase letter is returned unchanged; apiKey becomes api_key.         *)
(* byte(c) cuts a rune above U+00FF to its low byte, so a key with a       *)
(* non-ASCII character is changed, and changed again by a second pass.     *)
(***************************************************************************)
C10_SnakeIdempotent ==
    /\ snakePc = "twice" => twice = once
    /\ (snakePc \in {"once", "twice"} /\ \A i \in 1..Len(key) : ~IsUpper(key[i]))
            => once = key
    /\ (snakePc \in {"once", "twice"} /\ key = Key_apiKey) => once = Key_api_key

\* The function returned (next) or the process exited.
Finish(st, next) ==
    /\ trace' = st.trace
    /\ cliPc' = IF st.exit THEN "exit" ELSE next

\* main(): --help and --version return at once; otherwise the subcommand,
\* or the menu choice when there is none, picks the function to run.
Main ==
    /\ cliPc = "main"
    /\ \E help \in BOOLEAN, choice \in 0..3 :
         LET menu == CASE choice = 0 -> "runMigrate"
                       [] choice = 1 -> "runBackup"
                       [] choice = 2 -> "runRestore"
                       [] OTHER -> "runUninstallMenu"
             target == CASE subcommand = "migrate" -> "runMigrate"
                         [] subcommand = "backup" -> "runBackup"
                         [] subcommand = "restore" -> "runRestore"
                         [] subcommand = "uninstall" -> "runUninstallMenu"
                         [] subcommand = "uninstall-openclaw" -> "runUninstallOpenClaw"
                         [] subcommand = "uninstall-picoclaw" -> "runUninstallPicoClaw"
                         [] subcommand = "" -> menu
                         [] OTHER -> "exit"
         IN  /\ cliPc' = IF help THEN "done" ELSE target
             /\ command' = IF help \/ target = "exit" THEN "" ELSE target
    /\ UNCHANGED <<subcommand, dryRun, skipInstall, skipUninstall, oc, pc, trace>>

RunUninstallMenu ==
    /\ cliPc = "runUninstallMenu"
    /\ \E choice \in 0..1 :
         LET target == IF choice = 0 THEN "runUninstallOpenClaw"
                       ELSE "runUninstallPicoClaw"
         IN  /\ cliPc' = target
             /\ command' = target
    /\ UNCHANGED <<subcommand, dryRun, skipInstall, skipUninstall, oc, pc, trace>>

RunBackup ==
    /\ cliPc = "runBackup"
    /\ \E created \in BOOLEAN, verified \in BOOLEAN, line \in Lines :
         LET s0 == Phase(St, 1, "Backup OpenClaw")
         IN  IF ~oc.Found THEN Finish(Exit(s0), "done")
             ELSE Finish(doBackup(s0, FALSE, created, verified, line), "done")
    /\ UNCHANGED <<subcommand, dryRun, skipInstall, skipUninstall, command, oc, pc>>

\* runRestore(): have: backup.ListBackups found an archive.
RunRestore ==
    /\ cliPc = "runRestore"
    /\ \E have \in BOOLEAN, line \in Lines, verified \in BOOLEAN, restored \in BOOLEAN :
         LET s0 == Call(Phase(St, 1, "Restore OpenClaw from backup"), "ListBackups", have)
             s1 == AskChoose(s0, "Which backup do you want to restore?", 0)
             s2 == AskDangerous(s1, "Proceed with restore?", line)
             s3 == Call(s2, "VerifyBackup", verified)
             s4 == Call(s3, "RestoreBackup", restored)
         IN  IF ~have THEN Finish(Exit(s0), "done")
             ELSE IF ~ConfirmDangerous(line) THEN Finish(s2, "done")
             ELSE IF ~verified THEN Finish(Exit(s3), "done")
             ELSE IF ~restored THEN Finish(Exit(s4), "done")
             ELSE Finish(s4, "done")
    /\ UNCHANGED <<subcommand, dryRun, skipInstall, skipUninstall, command, oc, pc>>

RunUninstallOpenClaw ==
    /\ cliPc = "runUninstallOpenClaw"
    /\ \E backupLine \in Lines, created \in BOOLEAN, verified \in BOOLEAN,
          line \in Lines, line1 \in Lines, line2 \in Lines :
         LET s1 == IF oc.Found
                   THEN AskConfirm(St, "Create a backup first?", backupLine)
                   ELSE St
             s2 == IF oc.Found /\ Confirm(backupLine)
                   THEN doBackup(s1, FALSE, created, verified, line)
                   ELSE s1
         IN  IF ~oc.Found /\ ~oc.BinaryPath THEN Finish(Exit(St), "done")
             ELSE IF s2.exit THEN Finish(s2, "done")
             ELSE Finish(phase6Uninstall(s2, FALSE, line1, line2), "done")
    /\ UNCHANGED <<subcommand, dryRun, skipInstall, skipUninstall, command, oc, pc>>

RunUninstallPicoClaw ==
    /\ cliPc = "runUninstallPicoClaw"
    /\ \E line1 \in Lines, line2 \in Lines :
         LET s0 == Phase(St, 1, "Uninstall PicoClaw")
             s1 == AskDangerous(s0, "Uninstall PicoClaw?", line1)
             s2 == Call(s1, "StopPicoClaw", TRUE)
             s3 == IF pc.BinaryPath THEN Call(s2, "RemovePicoClawBinary", TRUE) ELSE s2
             s4 == Call(s3, "RemovePicoClawLaunchAgents", TRUE)
             s5 == AskDangerous(s4, "Delete all PicoClaw data?", line2)
             s6 == IF ~pc.Found THEN s4
                   ELSE IF ConfirmDangerous(line2) THEN Call(s5, "RemoveData", TRUE)
                   ELSE s5
         IN  IF ~pc.Found /\ ~pc.BinaryPath THEN Finish(Exit(St), "done")
             ELSE IF ~ConfirmDangerous(line1) THEN Finish(s1, "done")
             ELSE Finish(Call(s6, "VerifyPicoClawRemoved", TRUE), "done")
    /\ UNCHANGED <<subcommand, dryRun, skipInstall, skipUninstall, command, oc, pc>>

\* runMigrate, phase 1: detection and "Ready to begin migration?".
RunMigrate ==
    /\ cliPc = "runMigrate"
    /\ \E line \in Lines :
         LET s0 == Phase(St, 1, "Detecting installations")
             s1 == AskConfirm(s0, "Ready to begin migration?", line)
         IN  IF ~oc.Found THEN Finish(Exit(s0), "done")
             ELSE IF ~Confirm(line) THEN Finish(s1, "done")
             ELSE Finish(s1, "phase2Backup")
    /\ UNCHANGED <<subcommand, dryRun, skipInstall, skipUninstall, command, oc, pc>>

Phase2Backup ==
    /\ cliPc = "phase2Backup"
    /\ \E created \in BOOLEAN, verified \in BOOLEAN, line \in Lines :
         Finish(doBackup(Phase(St, 2, "Backup OpenClaw"), dryRun, created, verified, line),
                "phase3Install")
    /\ UNCHANGED <<subcommand, dryRun, skipInstall, skipUninstall, command, oc, pc>>

\* runMigrate, phase 3, and the detect.DetectPicoClaw() after it.
Phase3Install ==
    /\ cliPc = "phase3Install"
    /\ \E skipLine \in Lines, method \in 0..1, failAt \in 0..3 :
         LET s == IF skipInstall THEN Phase(St, 3, "Install PicoClaw (skipped)")
                  ELSE phase3Install(St, pc, dryRun, skipLine, method, failAt)
         IN  /\ Finish(s, "phase4Migrate")
             /\ pc' = [Found |-> pc.Found \/ Made(s.trace, "RunOnboard"),
                       BinaryPath |-> \/ pc.BinaryPath
                                      \/ Made(s.trace, "InstallBinary")
                                      \/ Made(s.trace, "BuildFromSource")]
    /\ UNCHANGED <<subcommand, dryRun, skipInstall, skipUninstall, command, oc>>

Phase4Migrate ==
    /\ cliPc = "phase4Migrate"
    /\ \E builtInLine \in Lines, outdated \in BOOLEAN, modelLine \in Lines :
         Finish(phase4Migrate(St, pc, dryRun, builtInLine, outdated, modelLine),
                "phase5Verify")
    /\ UNCHANGED <<subcommand, dryRun, skipInstall, skipUninstall, command, oc, pc>>

Phase5Verify ==
    /\ cliPc = "phase5Verify"
    /\ Finish(phase5Verify(St), "phase6Uninstall")
    /\ UNCHANGED <<subcommand, dryRun, skipInstall, skipUninstall, command, oc, pc>>

Phase6Uninstall ==
    /\ cliPc = "phase6Uninstall"
    /\ \E line1 \in Lines, line2 \in Lines :
         IF skipUninstall
         THEN Finish(Phase(St, 6, "Uninstall OpenClaw (skipped)"), "done")
         ELSE Finish(phase6Uninstall(St, dryRun, line1, line2), "done")
    /\ UNCHANGED <<subcommand, dryRun, skipInstall, skipUninstall, command, oc, pc>>

InitCliSpec == InitCli /\ MergeIdle /\ SnakeIdle /\ ConvIdle /\ MigIdle /\ HeapIdle /\ CfgIdle /\ RestoreIdle

NextCli ==
    /\ \/ Main
       \/ RunUninstallMenu
       \/ RunBackup
       \/ RunRestore
       \/ RunUninstallOpenClaw
       \/ RunUninstallPicoClaw
       \/ RunMigrate
       \/ Phase2Backup
       \/ Phase3Install
       \/ Phase4Migrate
       \/ Phase5Verify
       \/ Phase6Uninstall
    /\ UNCHANGED <<mergeVars, snakeVars, convVars, migVars, heapVars, cfgVars, restoreVars>>

SpecCli == InitCliSpec /\ [][NextCli]_vars

\* The calls that create, modify or delete something on the filesystem.
FsCalls ==
    {"CreateBackup", "Download", "Extract", "InstallBinary", "BuildFromSource",
     "RunOnboard", "MigrateWorkspace", "MigrateConfig", "updateModelInConfig",
     "RemoveBinary", "RemoveLaunchAgents", "RemoveData", "RestoreBackup",
     "RemovePicoClawBinary", "RemovePicoClawLaunchAgents"}

\* The calls of the migrate command that change the system: the PicoClaw
\* install, the workspace copy, the config write, the OpenClaw uninstall.
ChangeCalls ==
    {"Download", "Extract", "InstallBinary", "BuildFromSource", "RunOnboard",
     "MigrateWorkspace", "MigrateConfig", "updateModelInConfig",
     "StopOpenClaw", "RemoveBinary", "RemoveLaunchAgents", "RemoveData"}

IsCall(e, names) == e.ev = "call" /\ e.name \in names
SaidYes(e, q) == e.ev = "ask" /\ e.name = q /\ e.ok

PhasesOf(tr) == SelectSeq(tr, LAMBDA e : e.ev = "phase")

\* The six phases, in order, by the banner each prints.
PhaseTitles ==
    << {"Detecting installations"}, {"Backup OpenClaw"},
       {"Install PicoClaw", "Install PicoClaw (skipped)"}, {"Migrate data"},
       {"Verify migration"}, {"Uninstall OpenClaw", "Uninstall OpenClaw (skipped)"} >>

PhasesInOrder ==
    LET ph == PhasesOf(trace)
    IN  /\ Len(ph) <= 6
        /\ \A i \in DOMAIN ph : ph[i].n = i /\ ph[i].name \in PhaseTitles[i]
        /\ cliPc = "done" /\ Made(trace, "MigrateWorkspace") => Len(ph) = 6

(***************************************************************************)
(* Claim C4.  With --dry-run given, no command of the tool, for any        *)
(* sequence of user answers, creates, modifies or deletes anything on the  *)
(* filesystem.  Only runMigrate receives the flag: backup, restore and     *)
(* the uninstall commands act as without it.  Violated.                    *)
(***************************************************************************)
C4_DryRunTouchesNothing ==
    dryRun => \A i \in DOMAIN trace : ~IsCall(trace[i], FsCalls)

FirstRemovals == {"StopOpenClaw", "RemoveBinary", "RemoveLaunchAgents"}

InUninstallPhase == command \in {"runMigrate", "runUninstallOpenClaw"}

====
